---- MODULE Spec2Model ----
(***************************************************************************)
(* Minimus: the routing and response-normalisation core.                   *)
(*                                                                         *)
(* Two revisions of the framework are modelled side by side:               *)
(*   minimus.0.0.3.2.py  (class Response, greedy marker "path:")           *)
(*   minimus.py          (make_response, greedy marker ":path"); the       *)
(*                       definitions of this revision carry the prefix     *)
(*                       "Legacy_".                                        *)
(*                                                                         *)
(* A Python str is a sequence of characters, each character a one-element   *)
(* token; a bytes object is a sequence of integers 0..255.  A Python value *)
(* is a tagged tuple <<tag, payload>>.                                     *)
(***************************************************************************)
EXTENDS Integers, Sequences, FiniteSets, TLC

(***************************************************************************)
(* Characters, strings and bytes                                           *)
(***************************************************************************)

\* the printable ASCII characters, code points 32..126, in order
Ascii ==
    <<" ", "!", "\"", "#", "$", "%", "&", "'", "(", ")", "*", "+", ",",
      "-", ".", "/", "0", "1", "2", "3", "4", "5", "6", "7", "8", "9", ":",
      ";", "<", "=", ">", "?", "@", "A", "B", "C", "D", "E", "F", "G", "H",
      "I", "J", "K", "L", "M", "N", "O", "P", "Q", "R", "S", "T", "U", "V",
      "W", "X", "Y", "Z", "[", "\\", "]", "^", "_", "U+0060", "a", "b", "c",
      "d", "e", "f", "g", "h", "i", "j", "k", "l", "m", "n", "o", "p", "q",
      "r", "s", "t", "u", "v", "w", "x", "y", "z", "{", "|", "}", "~">>

\* ord(c) of a one-byte character
Ord(c) ==
    IF c = "\n" THEN 10 ELSE 31 + (CHOOSE i \in 1..Len(Ascii) : Ascii[i] = c)

\* the UTF-8 encoding of one character; "U+00E9" and "U+20AC" are the
\* characters e-acute and the euro sign
CharBytes(c) ==
    IF c = "U+00E9" THEN <<195, 169>>
    ELSE IF c = "U+20AC" THEN <<226, 130, 172>>
    ELSE <<Ord(c)>>

\* str.encode(charset, 'ignore') for charset UTF-8: the concatenation of the
\* encodings of the characters (computed by halves)
RECURSIVE str_encode(_)
str_encode(s) ==
    IF s = <<>> THEN <<>>
    ELSE IF Len(s) = 1 THEN CharBytes(s[1])
    ELSE str_encode(SubSeq(s, 1, Len(s) \div 2))
         \o str_encode(SubSeq(s, Len(s) \div 2 + 1, Len(s)))

\* str(n) for a natural number n
RECURSIVE int_to_str(_)
int_to_str(n) ==
    IF n < 10 THEN <<Ascii[17 + n]>>
    ELSE int_to_str(n \div 10) \o <<Ascii[17 + (n % 10)]>>

IsDigit(c) == c \in {"0", "1", "2", "3", "4", "5", "6", "7", "8", "9"}

\* the value of a non-empty string of decimal digits
RECURSIVE digits_value(_)
digits_value(s) ==
    IF s = <<>> THEN 0
    ELSE 10 * digits_value(SubSeq(s, 1, Len(s) - 1)) + (Ord(s[Len(s)]) - 48)

\* int(s) succeeds exactly on a non-empty string of decimal digits (signs
\* and surrounding blanks are outside the inputs drawn here)
int_parses(s) == s # <<>> /\ \A i \in 1..Len(s) : IsDigit(s[i])

\* s.find(c): the 0-based index of the first c in s, or -1
str_find(s, c) ==
    IF \E i \in 1..Len(s) : s[i] = c
    THEN (CHOOSE i \in 1..Len(s) : s[i] = c /\ \A j \in 1..(i - 1) : s[j] # c) - 1
    ELSE -1

\* sub in s, for strings
str_contains(s, sub) ==
    \E i \in 0..(Len(s) - Len(sub)) : SubSeq(s, i + 1, i + Len(sub)) = sub

str_startswith(s, pre) ==
    Len(s) >= Len(pre) /\ SubSeq(s, 1, Len(pre)) = pre

str_endswith(s, suf) ==
    Len(s) >= Len(suf) /\ SubSeq(s, Len(s) - Len(suf) + 1, Len(s)) = suf

\* s.split(sep) for a one-character separator: the list of segments
RECURSIVE str_split(_, _)
str_split(s, sep) ==
    LET k == str_find(s, sep) IN
    IF k = -1 THEN <<s>>
    ELSE <<SubSeq(s, 1, k)>> \o str_split(SubSeq(s, k + 2, Len(s)), sep)

\* sep.join(parts)
RECURSIVE str_join(_, _)
str_join(sep, parts) ==
    IF parts = <<>> THEN <<>>
    ELSE IF Len(parts) = 1 THEN parts[1]
    ELSE parts[1] \o sep \o str_join(sep, Tail(parts))

\* s.replace(old, "") for a non-empty old
RECURSIVE str_remove(_, _)
str_remove(s, old) ==
    IF Len(s) < Len(old) THEN s
    ELSE IF SubSeq(s, 1, Len(old)) = old
         THEN str_remove(SubSeq(s, Len(old) + 1, Len(s)), old)
         ELSE <<Head(s)>> \o str_remove(Tail(s), old)

(***************************************************************************)
(* Python values                                                           *)
(***************************************************************************)

PyNone == <<"None">>
PyStr(s) == <<"str", s>>
PyInt(n) == <<"int", n>>
PyBytes(b) == <<"bytes", b>>
\* a dict is its list of <<key, value>> items, key a str, in insertion order
PyDict(items) == <<"dict", items>>
PyTuple(elems) == <<"tuple", elems>>
PyList(elems) == <<"list", elems>>
\* a Response object: its fields response_body, status_code and _headers
PyResponse(rb, sc, hs) == <<"Response", rb, sc, hs>>

TypeOf(v) == v[1]

\* no exception was raised
NoExc == "none"

\* the outcome of an evaluation: the exception raised (or NoExc), the value
\* and the Response object as the evaluation leaves it
Outcome(e, v, o) == [exc |-> e, val |-> v, obj |-> o]

\* len(v) is defined for these types, and raises TypeError for the others
HasLen(v) == TypeOf(v) \in {"str", "bytes", "list", "tuple", "dict"}
PyLen(v) == Len(v[2])

\* v[i] for i in 0..len(v)-1, v a str, bytes, list or tuple
PyIndex(v, i) ==
    CASE TypeOf(v) = "str" -> PyStr(<<v[2][i + 1]>>)
      [] TypeOf(v) = "bytes" -> PyInt(v[2][i + 1])
      [] OTHER -> v[2][i + 1]

\* json.dumps can serialise v
RECURSIVE json_ok(_)
json_ok(v) ==
    CASE TypeOf(v) \in {"str", "int", "None"} -> TRUE
      [] TypeOf(v) \in {"list", "tuple"} ->
            \A i \in 1..Len(v[2]) : json_ok(v[2][i])
      [] TypeOf(v) = "dict" ->
            \A i \in 1..Len(v[2]) : json_ok(v[2][i][2])
      [] OTHER -> FALSE

\* json.dumps(v) with the default separators (", " and ": "); strings are
\* drawn from ASCII without quotes or backslashes, so no escape is needed
RECURSIVE json_dumps(_)
RECURSIVE json_items(_, _)
json_items(xs, isdict) ==
    IF xs = <<>> THEN <<>>
    ELSE (IF isdict
          THEN <<"\"">> \o xs[1][1] \o <<"\"", ":", " ">> \o json_dumps(xs[1][2])
          ELSE json_dumps(xs[1]))
         \o (IF Len(xs) > 1 THEN <<",", " ">> ELSE <<>>)
         \o json_items(Tail(xs), isdict)
json_dumps(v) ==
    CASE TypeOf(v) = "str" -> <<"\"">> \o v[2] \o <<"\"">>
      [] TypeOf(v) = "int" -> int_to_str(v[2])
      [] TypeOf(v) = "None" -> <<"n", "u", "l", "l">>
      [] TypeOf(v) = "dict" -> <<"{">> \o json_items(v[2], TRUE) \o <<"}">>
      [] OTHER -> <<"[">> \o json_items(v[2], FALSE) \o <<"]">>

(***************************************************************************)
(* class Response (minimus.0.0.3.2.py)                                     *)
(***************************************************************************)

charset == <<"U", "T", "F", "-", "8">>

ContentType == <<"C", "o", "n", "t", "e", "n", "t", "-", "T", "y", "p", "e">>
ContentLength ==
    <<"C", "o", "n", "t", "e", "n", "t", "-", "L", "e", "n", "g", "t", "h">>
TextHtml ==
    <<"t", "e", "x", "t", "/", "h", "t", "m", "l", ";", "c", "h", "a", "r",
      "s", "e", "t", "=">> \o charset
ApplicationJson ==
    <<"a", "p", "p", "l", "i", "c", "a", "t", "i", "o", "n", "/", "j", "s",
      "o", "n", ";", "c", "h", "a", "r", "s", "e", "t", "=">> \o charset

\* one header: the tuple (name, value)
Header(name, value) == PyTuple(<<PyStr(name), PyStr(value)>>)

\* http.client.responses.get(code, 'UNKNOWN'), on the codes drawn here
responses_get(code) ==
    CASE code = 200 -> <<"O", "K">>
      [] code = 201 -> <<"C", "r", "e", "a", "t", "e", "d">>
      [] code = 302 -> <<"F", "o", "u", "n", "d">>
      [] code = 303 -> <<"S", "e", "e", " ", "O", "t", "h", "e", "r">>
      [] code = 400 -> <<"B", "a", "d", " ", "R", "e", "q", "u", "e", "s", "t">>
      [] code = 404 -> <<"N", "o", "t", " ", "F", "o", "u", "n", "d">>
      [] code = 405 ->
            <<"M", "e", "t", "h", "o", "d", " ", "N", "o", "t", " ", "A", "l",
              "l", "o", "w", "e", "d">>
      [] OTHER -> <<"U", "N", "K", "N", "O", "W", "N">>

\* Response.add_header: the object with headers added to _headers
add_header(o, headers) ==
    CASE TypeOf(headers) = "str" ->
            PyResponse(o[2], o[3], Append(o[4], PyTuple(<<PyStr(ContentType), headers>>)))
      [] TypeOf(headers) = "tuple" -> PyResponse(o[2], o[3], Append(o[4], headers))
      [] TypeOf(headers) = "list" -> PyResponse(o[2], o[3], o[4] \o headers[2])
      [] OTHER -> o

\* Response.handle_as_json: the encoded JSON body in a one-chunk list; every
\* call appends a Content-Type header to _headers
handle_as_json(o) ==
    IF ~json_ok(o[2]) THEN Outcome("TypeError", PyNone, o)
    ELSE Outcome(NoExc, PyList(<<PyBytes(str_encode(json_dumps(o[2])))>>),
                 add_header(o, Header(ContentType, ApplicationJson)))

\* Response.response_encode: the body as a list of chunks
response_encode(o) ==
    CASE TypeOf(o[2]) = "str" ->
            Outcome(NoExc, PyList(<<PyBytes(str_encode(o[2][2]))>>), o)
      [] TypeOf(o[2]) = "list" ->
            IF Len(o[2][2]) > 0 /\ TypeOf(o[2][2][1]) = "dict"
            THEN handle_as_json(o)
            ELSE Outcome(NoExc, o[2], o)
      [] TypeOf(o[2]) = "dict" -> handle_as_json(o)
      [] OTHER -> Outcome(NoExc, PyList(<<o[2]>>), o)

\* Response.body
Response_body(o) == response_encode(o)

\* Response.status: "<code> <reason>"
Response_status(o) ==
    PyStr(int_to_str(o[3][2]) \o <<" ">> \o responses_get(o[3][2]))

\* [('Content-Length', str(len(body[0])))] for b, the outcome of self.body:
\* the length of the FIRST chunk of the body
content_length_of(b) ==
    IF b.exc # NoExc THEN b
    ELSE IF Len(b.val[2]) = 0 THEN Outcome("IndexError", PyNone, b.obj)
    ELSE IF ~HasLen(b.val[2][1]) THEN Outcome("TypeError", PyNone, b.obj)
    ELSE Outcome(NoExc,
                 PyList(<<Header(ContentLength, int_to_str(PyLen(b.val[2][1])))>>),
                 b.obj)

\* Response.content_length_header
content_length_header(o) == content_length_of(Response_body(o))

\* self._headers + self.content_length_header, cl being the outcome of the
\* right operand.  The left operand is the list object _headers itself, so a
\* header that content_length_header appends to it in place is part of the
\* sum.
headers_sum(cl) ==
    IF cl.exc # NoExc THEN cl
    ELSE Outcome(NoExc, PyList(cl.obj[4] \o cl.val[2]), cl.obj)

\* Response.headers: _headers (the default Content-Type when it is empty)
\* followed by the Content-Length header
Response_headers(o) ==
    headers_sum(content_length_header(
        IF o[4] = <<>>
        THEN PyResponse(o[2], o[3], <<Header(ContentType, TextHtml)>>)
        ELSE o))

\* the (body, status line, headers) triple, or the exception raised
Triple(e, b, s, h) == [exc |-> e, body |-> b, status |-> s, headers |-> h]
Raised(e) == Triple(e, PyNone, PyNone, PyNone)

\* the tuple that Response.wsgi returns, from b and h, the outcomes of
\* self.body and of self.headers
wsgi_triple(o, b, h) ==
    IF b.exc # NoExc THEN Raised(b.exc)
    ELSE IF h.exc # NoExc THEN Raised(h.exc)
    ELSE Triple(NoExc, b.val, Response_status(o), h.val)

\* Response.wsgi: self.body, self.status, self.headers, in this order; the
\* headers are read from the object as the read of the body leaves it
Response_wsgi(o) ==
    wsgi_triple(o, Response_body(o), Response_headers(Response_body(o).obj))

\* Response.__init__, the 2-tuple case once its first element is known to be
\* a Response: h is the outcome of the read of its headers
Response_init_taken(rb, sc, h) ==
    IF h.exc # NoExc THEN Outcome(h.exc, PyNone, PyNone)
    ELSE Outcome(NoExc, <<rb, sc, h.val>>, PyNone)

\* Response.__init__, the test of len(response_body) == 2 on the fields a as
\* the 3-tuple case leaves them
Response_init_pair(a) ==
    IF ~HasLen(a[1]) THEN Outcome("TypeError", PyNone, PyNone)
    ELSE IF PyLen(a[1]) # 2 THEN Outcome(NoExc, a, PyNone)
    ELSE IF TypeOf(a[1]) = "dict" THEN Outcome("KeyError", PyNone, PyNone)
    ELSE IF TypeOf(PyIndex(a[1], 0)) # "Response"
    THEN Outcome("AttributeError", PyNone, PyNone)
    ELSE Response_init_taken(PyIndex(a[1], 0), PyIndex(a[1], 1),
                             Response_headers(PyIndex(a[1], 0)))

\* Response.__init__, the part that unpacks a tuple: it yields
\* (response_body, status_code, headers), or raises
Response_init_tuple(response_body, status_code, headers) ==
    Response_init_pair(
        IF Len(response_body[2]) = 3
        THEN <<response_body[2][1], response_body[2][2], response_body[2][3]>>
        ELSE <<response_body, status_code, headers>>)

\* the fields taken from a Response passed as the body: h and b are the
\* outcomes of the reads of its headers and of its body
Response_init_copied(response_body, h, b) ==
    IF h.exc # NoExc THEN Outcome(h.exc, PyNone, PyNone)
    ELSE IF b.exc # NoExc THEN Outcome(b.exc, PyNone, PyNone)
    ELSE Outcome(NoExc, <<b.val, response_body[3], h.val>>, PyNone)

\* Response.__init__, the part that takes the fields of a Response passed as
\* the body: status_code, then headers, then body
Response_init_response(response_body) ==
    Response_init_copied(response_body, Response_headers(response_body),
        Response_body(Response_headers(response_body).obj))

\* Response.__init__ from the conversion of a str status_code on: the object
\* with response_body rb, status_code sc and the headers hd added
Response_init_fields(rb, sc, hd) ==
    LET first == IF TypeOf(sc) = "str" THEN str_split(sc[2], " ")[1] ELSE <<>>
        code == IF TypeOf(sc) = "str" THEN PyInt(digits_value(first)) ELSE sc
    IN  IF TypeOf(sc) = "str" /\ ~int_parses(first)
        THEN Outcome("ValueError", PyNone, PyNone)
        ELSE Outcome(NoExc, PyNone,
                 add_header(
                     IF TypeOf(rb) = "None"
                     THEN PyResponse(Response_status(PyResponse(rb, code, <<>>)), code, <<>>)
                     ELSE PyResponse(rb, code, <<>>),
                     hd))

\* Response.__init__ after the isinstance(response_body, Response) case,
\* whose outcome is s0
Response_init_unpack(s0) ==
    IF s0.exc # NoExc THEN s0
    ELSE IF TypeOf(s0.val[1]) = "tuple"
    THEN Response_init_tuple(s0.val[1], s0.val[2], s0.val[3])
    ELSE s0

\* Response.__init__ after the tuple case, whose outcome is s1
Response_init_finish(s1) ==
    IF s1.exc # NoExc THEN s1
    ELSE Response_init_fields(s1.val[1], s1.val[2], s1.val[3])

\* Response.__init__(response_body, status_code, headers): the object
\* constructed, or the exception raised.  A ClassView instance is the tuple
\* <<"ClassView", response>> of its field response, whose fields are taken
\* as those of a Response are.
Response_init(response_body, status_code, headers) ==
    Response_init_finish(Response_init_unpack(
        IF TypeOf(response_body) = "Response"
        THEN Response_init_response(response_body)
        ELSE IF TypeOf(response_body) = "ClassView"
        THEN (IF TypeOf(response_body[2]) = "Response"
              THEN Response_init_response(response_body[2])
              ELSE Outcome("AttributeError", PyNone, PyNone))
        ELSE Outcome(NoExc, <<response_body, status_code, headers>>, PyNone)))

\* the Response object o as a read of o.wsgi leaves it: the read of the body,
\* then the read of the headers
Response_after_wsgi(o) == Response_headers(Response_body(o).obj).obj

\* the wsgi property of the object that r, the outcome of Response(...), holds
Response_wsgi_of(r) ==
    IF r.exc # NoExc THEN Raised(r.exc) ELSE Response_wsgi(r.obj)

\* Response(response_body, status_code, headers).wsgi
Response_new_wsgi(response_body, status_code, headers) ==
    Response_wsgi_of(Response_init(response_body, status_code, headers))

\* ClassView.dispatcher(env, **kwargs) of a subclass whose methods for the
\* verbs of defined take (self, env, **kwargs) and return 'hi': the value
\* that __init__ stores in self.response.  The methods of the base class
\* take no env (get: no keyword arguments), so the call of one raises.
ClassView_dispatcher(defined, request_method, kwargs) ==
    IF request_method \notin {<<"G", "E", "T">>, <<"P", "O", "S", "T">>,
                              <<"P", "U", "T">>, <<"D", "E", "L", "E", "T", "E">>}
    THEN Outcome(NoExc, PyNone, PyNone)
    ELSE IF request_method \in defined
    THEN Outcome(NoExc, Response_init(PyStr(<<"h", "i">>), PyInt(200), PyNone).obj, PyNone)
    ELSE IF request_method = <<"G", "E", "T">> /\ kwargs = <<>>
    THEN Outcome(NoExc,
             Response_init(
                 Response_init(PyStr(<<"G", "E", "T", " ", "C", "l", "a", "s", "s", "V",
                                       "i", "e", "w", " ", "m", "e", "t", "h", "o", "d",
                                       " ", "n", "o", "t", " ", "d", "e", "f", "i", "n",
                                       "e", "d">>), PyInt(405), PyNone).obj,
                 PyInt(200), PyNone).obj,
             PyNone)
    ELSE Outcome("TypeError", PyNone, PyNone)

(***************************************************************************)
(* route_match                                                             *)
(***************************************************************************)

\* the outcome of route_match: the exception raised (or NoExc), the bool and
\* the keyword arguments, a dict given as its list of <<name, value>> items
MatchResult(e, m, kw) == [exc |-> e, match |-> m, kwargs |-> kw]

\* kwargs[varname] = value, kwargs a dict given as its list of items
kwargs_set(kwargs, varname, value) ==
    IF \E i \in 1..Len(kwargs) : kwargs[i][1] = varname
    THEN [i \in 1..Len(kwargs) |->
            IF kwargs[i][1] = varname THEN <<varname, value>> ELSE kwargs[i]]
    ELSE Append(kwargs, <<varname, value>>)

\* pathval of the greedy capture: '/' + pparts[i] for i = idx..len(pparts)-1
\* (idx is 0-based)
RECURSIVE greedy_pathval(_, _)
greedy_pathval(pparts, idx) ==
    IF idx >= Len(pparts) THEN <<>>
    ELSE <<"/">> \o pparts[idx + 1] \o greedy_pathval(pparts, idx + 1)

\* the for loop of route_match from index idx (0-based) on; marker is the
\* greedy marker of the revision and strip says whether the revision removes
\* the leading '/' of the captured path
RECURSIVE route_match_loop(_, _, _, _, _, _)
route_match_loop(marker, strip, rparts, pparts, idx, kwargs) ==
    IF idx >= Len(rparts) THEN MatchResult(NoExc, TRUE, kwargs)
    ELSE
    LET rp == rparts[idx + 1]
        b1 == str_find(rp, "<")
        b2 == str_find(rp, ">")
        varname == SubSeq(rp, b1 + 2, b2)
    IN
    IF b1 # -1
    THEN IF b2 <= b1 THEN MatchResult(NoExc, FALSE, kwargs)
         ELSE IF str_contains(varname, marker)
         THEN LET pathval == greedy_pathval(pparts, idx) IN
              MatchResult(NoExc, TRUE,
                  kwargs_set(kwargs, str_remove(varname, marker),
                      IF strip /\ str_startswith(pathval, <<"/">>)
                      THEN Tail(pathval) ELSE pathval))
         ELSE IF idx >= Len(pparts) THEN MatchResult("IndexError", FALSE, kwargs)
         ELSE route_match_loop(marker, strip, rparts, pparts, idx + 1,
                               kwargs_set(kwargs, varname, pparts[idx + 1]))
    ELSE IF idx >= Len(pparts) THEN MatchResult("IndexError", FALSE, kwargs)
    ELSE IF rp # pparts[idx + 1] THEN MatchResult(NoExc, FALSE, kwargs)
    ELSE route_match_loop(marker, strip, rparts, pparts, idx + 1, kwargs)

\* the arity test and the loop, for a greedy marker
route_match_with(marker, strip, route, path) ==
    LET rparts == str_split(route, "/")
        pparts == str_split(path, "/")
    IN  IF ~str_contains(route, marker) /\ Len(rparts) # Len(pparts)
        THEN MatchResult(NoExc, FALSE, <<>>)
        ELSE route_match_loop(marker, strip, rparts, pparts, 0, <<>>)

\* route_match of minimus.0.0.3.2.py: <path:name> is greedy
route_match(route, path) ==
    route_match_with(<<"p", "a", "t", "h", ":">>, TRUE, route, path)

\* route_match of minimus.py: <name:path> is greedy, and the captured path
\* keeps its leading '/'
Legacy_route_match(route, path) ==
    route_match_with(<<":", "p", "a", "t", "h">>, FALSE, route, path)

(***************************************************************************)
(* route_encode                                                            *)
(***************************************************************************)

\* kwargs.get(varname, None), kwargs a dict given as its list of items
kwargs_get(kwargs, varname) ==
    IF \E i \in 1..Len(kwargs) : kwargs[i][1] = varname
    THEN kwargs[CHOOSE i \in 1..Len(kwargs) : kwargs[i][1] = varname][2]
    ELSE PyNone

\* a test of the value against None only, where route_encode tests its truth
py_is_not_none(v) == TypeOf(v) # "None"

\* bool(v): None, 0 and the empty str, bytes, list, tuple and dict are false
py_bool(v) ==
    CASE TypeOf(v) = "None" -> FALSE
      [] TypeOf(v) = "int" -> v[2] # 0
      [] OTHER -> Len(v[2]) > 0

\* the for loop of route_encode from index i (1-based) on, nparts being the
\* parts collected so far: a malformed segment ends it with the tuple
\* (False, kwargs), a variable without a true value with ValueError
RECURSIVE route_encode_loop(_, _, _, _)
route_encode_loop(rparts, i, kwargs, nparts) ==
    IF i > Len(rparts) THEN Outcome(NoExc, PyStr(str_join(<<"/">>, nparts)), PyNone)
    ELSE
    LET rp == rparts[i]
        b1 == str_find(rp, "<")
        b2 == str_find(rp, ">")
        varval == kwargs_get(kwargs, SubSeq(rp, b1 + 2, b2))
    IN
    IF b1 = -1 THEN route_encode_loop(rparts, i + 1, kwargs, Append(nparts, rp))
    ELSE IF b2 <= b1
    THEN Outcome(NoExc, PyTuple(<< <<"bool", FALSE>>, PyDict(kwargs) >>), PyNone)
    ELSE IF ~py_bool(varval) THEN Outcome("ValueError", PyNone, PyNone)
    ELSE route_encode_loop(rparts, i + 1, kwargs,
             Append(nparts, IF TypeOf(varval) = "int" THEN int_to_str(varval[2])
                            ELSE varval[2]))

\* route_encode(route, **kwargs), the same in both revisions for a str route
route_encode(route, kwargs) ==
    route_encode_loop(str_split(route, "/"), 1, kwargs, <<>>)

(***************************************************************************)
(* Cookie obfuscation (minimus.py)                                         *)
(***************************************************************************)

\* the URL-safe base64 alphabet
B64Alphabet ==
    <<"A", "B", "C", "D", "E", "F", "G", "H", "I", "J", "K", "L", "M", "N",
      "O", "P", "Q", "R", "S", "T", "U", "V", "W", "X", "Y", "Z", "a", "b",
      "c", "d", "e", "f", "g", "h", "i", "j", "k", "l", "m", "n", "o", "p",
      "q", "r", "s", "t", "u", "v", "w", "x", "y", "z", "0", "1", "2", "3",
      "4", "5", "6", "7", "8", "9", "-", "_">>

\* base64.urlsafe_b64encode(b): three bytes give four characters, and the
\* last group is padded with '=' (61)
RECURSIVE urlsafe_b64encode(_)
urlsafe_b64encode(b) ==
    IF b = <<>> THEN <<>>
    ELSE LET v == b[1] * 65536 + (IF Len(b) >= 2 THEN b[2] * 256 ELSE 0)
                  + (IF Len(b) >= 3 THEN b[3] ELSE 0)
         IN  << Ord(B64Alphabet[(v \div 262144) + 1]),
                Ord(B64Alphabet[((v \div 4096) % 64) + 1]),
                IF Len(b) >= 2 THEN Ord(B64Alphabet[((v \div 64) % 64) + 1]) ELSE 61,
                IF Len(b) >= 3 THEN Ord(B64Alphabet[(v % 64) + 1]) ELSE 61 >>
             \o urlsafe_b64encode(SubSeq(b, 4, Len(b)))

\* b.rstrip(c) for a byte c
RECURSIVE bytes_rstrip(_, _)
bytes_rstrip(b, c) ==
    IF b # <<>> /\ b[Len(b)] = c THEN bytes_rstrip(SubSeq(b, 1, Len(b) - 1), c) ELSE b

\* the bytes of a sequence of 6-bit values: four values give three bytes, a
\* last group of three gives two bytes and one of two gives one byte
RECURSIVE b64_bytes(_)
b64_bytes(v) ==
    IF Len(v) < 2 THEN <<>>
    ELSE << v[1] * 4 + (v[2] \div 16) >>
         \o (IF Len(v) >= 3 THEN << (v[2] % 16) * 16 + (v[3] \div 4) >> ELSE <<>>)
         \o (IF Len(v) >= 4 THEN << (v[3] % 4) * 64 + v[4] >> ELSE <<>>)
         \o b64_bytes(SubSeq(v, 5, Len(v)))

\* base64.urlsafe_b64decode(b) of bytes that end with padding: the bytes that
\* are not of the alphabet are discarded, the padding ends the data
urlsafe_b64decode(b) ==
    LET data == SubSeq(b, 1, (CHOOSE i \in 1..Len(b) :
                                 b[i] = 61 /\ \A j \in 1..(i - 1) : b[j] # 61) - 1)
        known == SelectSeq(data, LAMBDA x : \E k \in 1..64 : Ord(B64Alphabet[k]) = x)
    IN  b64_bytes([i \in 1..Len(known) |->
                     (CHOOSE k \in 1..64 : Ord(B64Alphabet[k]) = known[i]) - 1])

\* ord(c) of a character of a str
py_ord(c) ==
    IF c = "U+00E9" THEN 233 ELSE IF c = "U+20AC" THEN 8364 ELSE Ord(c)

\* encode(key, string) for a key that is not empty: the sum of the code
\* points is not reduced modulo 256 (the % applies to ord(key_c) alone), and
\* str.encode('latin') raises on a character above 255
encode(key, string) ==
    IF \E i \in 1..Len(string) :
           py_ord(string[i]) + (py_ord(key[((i - 1) % Len(key)) + 1]) % 256) > 255
    THEN Outcome("UnicodeEncodeError", PyNone, PyNone)
    ELSE Outcome(NoExc,
           PyBytes(bytes_rstrip(urlsafe_b64encode(
               [i \in 1..Len(string) |->
                   py_ord(string[i]) + (py_ord(key[((i - 1) % Len(key)) + 1]) % 256)]),
               61)),
           PyNone)

\* decode(key, string): the first statement replaces the argument by the
\* bytes b"b's9LHug'"; the value returned is a str, given by the code points
\* of its characters
decode(key, string) ==
    LET raw == urlsafe_b64decode(<<98, 39, 115, 57, 76, 72, 117, 103, 39>>
                                 \o <<61, 61, 61>>)
    IN  Outcome(NoExc,
                [i \in 1..Len(raw) |->
                    (raw[i] - py_ord(key[((i - 1) % Len(key)) + 1]) + 256) % 256],
                PyNone)

(***************************************************************************)
(* Form variables (minimus.0.0.3.2.py)                                     *)
(***************************************************************************)

\* parse_qsl(source, keep_blank_values=True): the (name, value) pairs of the
\* fields between '&', a field without '=' having the value ''; the inputs
\* drawn hold no escape
parse_qsl(source) ==
    LET fields == SelectSeq(str_split(source, "&"), LAMBDA f : f # <<>>) IN
    [i \in 1..Len(fields) |->
        IF str_find(fields[i], "=") = -1 THEN <<fields[i], <<>>>>
        ELSE << SubSeq(fields[i], 1, str_find(fields[i], "=")),
                SubSeq(fields[i], str_find(fields[i], "=") + 2, Len(fields[i])) >>]

\* parse_querystring(environ): the value returned (the cached list is the
\* list that parse_qsl made of the same QUERY_STRING)
parse_querystring(env) ==
    IF env.QUERY_STRING = <<>> THEN <<>> ELSE parse_qsl(env.QUERY_STRING)

\* parse_formvars(environ, include_get_vars): the items of the MultiDict
\* returned, and the environ as the call leaves it.  form is the list of the
\* fields that cgi.FieldStorage reads from wsgi.input; parsed_formvars is the
\* MultiDict under 'paste.parsed_formvars' (None before the first call),
\* which is the object that the call returns and updates.
parse_formvars(env, include_get_vars) ==
    LET formvars == IF env.parsed_formvars # PyNone THEN env.parsed_formvars[2]
                    ELSE env.form
        items == IF include_get_vars THEN formvars \o parse_querystring(env)
                 ELSE formvars
    IN  [val |-> items, environ |-> [env EXCEPT !.parsed_formvars = PyList(items)]]

(***************************************************************************)
(* Static files                                                            *)
(***************************************************************************)

\* a file system is a set of <<path, content>>: content is a str for a text
\* file (its bytes are the UTF-8 encoding) and a bytes for a binary file
\* whose bytes do not decode
path_exists(files, fn) == \E f \in files : f[1] = fn
file_content(files, fn) == (CHOOSE f \in files : f[1] = fn)[2]

\* os.path.join(a, b)
path_join(a, b) ==
    IF str_startswith(b, <<"/">>) THEN b
    ELSE IF a = <<>> \/ str_endswith(a, <<"/">>) THEN a \o b
    ELSE a \o <<"/">> \o b

\* search_file(filename, *args): the first existing candidate, or None
search_file(files, filename, args) ==
    LET fname == IF str_startswith(filename, <<"/">>) THEN Tail(filename) ELSE filename
        paths == <<filename, fname>> \o [i \in 1..Len(args) |-> path_join(args[i], fname)]
    IN  IF \E i \in 1..Len(paths) : path_exists(files, paths[i])
        THEN PyStr(paths[CHOOSE i \in 1..Len(paths) :
                     /\ path_exists(files, paths[i])
                     /\ \A j \in 1..(i - 1) : ~path_exists(files, paths[j])])
        ELSE PyNone

\* the read of get_file, c being the content of the file found
read_file(c, binary) ==
    IF binary
    THEN Outcome(NoExc, IF TypeOf(c) = "str" THEN PyBytes(str_encode(c[2])) ELSE c, PyNone)
    ELSE IF TypeOf(c) = "str" THEN Outcome(NoExc, c, PyNone)
    ELSE Outcome("UnicodeDecodeError", PyNone, PyNone)

\* get_file after search_file, whose result is real_filename
get_found_file(files, real_filename, binary) ==
    IF TypeOf(real_filename) = "None" THEN Outcome(NoExc, PyNone, PyNone)
    ELSE read_file(file_content(files, real_filename[2]), binary)

\* get_file(filename, *args, ftype=...): the content of the file that
\* search_file finds, or None; a text read of a binary file raises
get_file(files, filename, args, binary) ==
    get_found_file(files, search_file(files, filename, args), binary)

\* get_text_file(filename, *args)
get_text_file(files, filename, args) == get_file(files, filename, args, FALSE)

\* c.lower()
char_lower(c) ==
    IF c \in {"\n", "U+00E9", "U+20AC"} THEN c
    ELSE IF Ord(c) >= 65 /\ Ord(c) <= 90 THEN Ascii[Ord(c) - 31 + 32] ELSE c

str_lower(s) == [i \in 1..Len(s) |-> char_lower(s[i])]

\* ext_check(pathname, ext_list)
ext_check(pathname, ext_list) ==
    \E i \in 1..Len(ext_list) :
        str_endswith(str_lower(pathname), str_lower(ext_list[i]))

ImageExtensions ==
    << <<"j", "p", "g">>, <<"j", "p", "e", "g">>, <<"g", "i", "f">>,
       <<"p", "n", "g">>, <<"i", "c", "o">> >>

\* mimeguess(filename): mimetypes.types_map on the extensions drawn here
mimeguess(filename) ==
    LET parts == str_split(filename, ".")
        ext == str_lower(parts[Len(parts)])
    IN  CASE ext = <<"p", "n", "g">> -> <<"i", "m", "a", "g", "e", "/", "p", "n", "g">>
          [] ext \in {<<"j", "p", "g">>, <<"j", "p", "e", "g">>} ->
                <<"i", "m", "a", "g", "e", "/", "j", "p", "e", "g">>
          [] ext = <<"g", "i", "f">> -> <<"i", "m", "a", "g", "e", "/", "g", "i", "f">>
          [] ext = <<"i", "c", "o">> ->
                <<"i", "m", "a", "g", "e", "/", "v", "n", "d", ".", "m", "i", "c",
                  "r", "o", "s", "o", "f", "t", ".", "i", "c", "o", "n">>
          [] OTHER -> <<"t", "e", "x", "t", "/", "h", "t", "m", "l">>

(***************************************************************************)
(* class Minimus: configuration and hooks                                  *)
(***************************************************************************)

\* os.path.dirname(os.path.realpath(app_file)), for an application in /app
app_dir == <<"/", "a", "p", "p">>
static_dir == <<"s", "t", "a", "t", "i", "c">>
template_dir == <<"t", "e", "m", "p", "l", "a", "t", "e", "s">>

TextCss == <<"t", "e", "x", "t", "/", "c", "s", "s">>
TextJavascript ==
    <<"t", "e", "x", "t", "/", "j", "a", "v", "a", "s", "c", "r", "i", "p", "t">>
CacheControl == <<"C", "a", "c", "h", "e", "-", "C", "o", "n", "t", "r", "o", "l">>
CacheControlValue ==
    <<"p", "u", "b", "l", "i", "c", ",", " ", "m", "a", "x", "-", "a", "g",
      "e", "=", "4", "3", "2", "0", "0">>

MethodNotAllowedBody ==
    <<"<", "h", "1", ">", "4", "0", "5", " ", "M", "e", "t", "h", "o", "d",
      " ", "n", "o", "t", " ", "a", "l", "l", "o", "w", "e", "d", "<", "/",
      "h", "1", ">">>

\* Minimus._not_found_html: the default not-found-body provider
_not_found_html ==
    <<"<", "h", "1", ">", "4", "0", "4", " ", "N", "o", "t", " ", "F", "o",
      "u", "n", "d", "<", "/", "h", "1", ">">>

\* my404 of the docstring of _not_found_html: an application-level provider
my404 ==
    <<"M", "y", " ", "4", "0", "4", " ", "m", "e", "s", "s", "a", "g", "e", "!">>

\* self.not_found_html(): the body of the provider that is installed
call_not_found_html(provider) ==
    IF provider = "my404" THEN PyStr(my404) ELSE PyStr(_not_found_html)

\* Minimus.logo() of minimus.0.0.3.2.py, for the year 2021 and VERSION '0.0.3'
logo_text ==
    <<"\n", " ", " ", "_", "_", " ", " ", "_", "_", " ", "_", " ", " ",
      " ", " ", " ", " ", " ", "_", "\n", " ", "|", " ", " ", "\\", "/",
      " ", " ", "(", "_", ")", " ", " ", " ", " ", " ", "(", "_", ")",
      "\n", " ", "|", " ", "\\", " ", " ", "/", " ", "|", "_", " ", "_",
      " ", "_", "_", " ", " ", "_", " ", "_", " ", "_", "_", " ", "_", "_",
      "_", " ", " ", "_", " ", " ", " ", "_", " ", "_", "_", "_", "\n",
      " ", "|", " ", "|", "\\", "/", "|", " ", "|", " ", "|", " ", "'",
      "_", " ", "\\", "|", " ", "|", " ", "'", "_", " ", "U+0060", " ",
      "_", " ", "\\", "|", " ", "|", " ", "|", " ", "/", " ", "_", "_",
      "|", "\n", " ", "|", " ", "|", " ", " ", "|", " ", "|", " ", "|",
      " ", "|", " ", "|", " ", "|", " ", "|", " ", "|", " ", "|", " ", "|",
      " ", "|", " ", "|", " ", "|", "_", "|", " ", "\\", "_", "_", " ",
      "\\", "\n", " ", "|", "_", "|", " ", " ", "|", "_", "|", "_", "|",
      "_", "|", " ", "|", "_", "|", "_", "|", "_", "|", " ", "|", "_", "|",
      " ", "|", "_", "|", "\\", "_", "_", ",", "_", "|", "_", "_", "_",
      "/", "\n", "-", "-", "-", "-", "-", "-", "-", "-", "-", "-", "-",
      "-", "-", "-", "-", "-", "-", "-", "-", "-", "-", "-", "-", "-", "-",
      "-", "-", "-", "-", "-", "-", "-", "-", "-", "-", "-", "-", "-", "-",
      "-", "-", "-", "\n", " ", "A", " ", "M", "i", "n", "i", "m", "a",
      "l", " ", "P", "y", "t", "h", "o", "n", " ", "F", "r", "a", "m", "e",
      "w", "o", "r", "k", "\n", " ", "(", "C", ")", " ", "2", "0", "2",
      "1", " ", "J", "e", "f", "f", " ", "e", "t", ".", " ", "a", "l", ".",
      " ", "\n", " ", "V", "e", "r", "s", "i", "o", "n", " ", "0", ".",
      "0", ".", "3", ",", " ", "(", "u", "s", "e", " ", "g", "r", "a", "n",
      "t", " ", "M", "I", "T", " ", "L", "i", "c", "e", "n", "s", "e", ")",
      "\n", " ", "-", "-", "-", "-", "-", "-", "-", "-", "-", "-", "-",
      "-", "-", "-", "-", "-", "-", "-", "-", "-", "-", "-", "-", "-", "-",
      "-", "-", "-", "-", "-", "-", "-", "-", "-", "-", "-", "-", "-", "-",
      "-", "-", "\n">>

\* Minimus.logo() of minimus.py
Legacy_logo_text ==
    <<"\n", " ", " ", "_", "_", " ", " ", "_", "_", " ", "_", " ", " ",
      " ", " ", " ", " ", " ", "_", "\n", " ", "|", " ", " ", "\\", "/",
      " ", " ", "(", "_", ")", " ", " ", " ", " ", " ", "(", "_", ")",
      "\n", " ", "|", " ", "\\", " ", " ", "/", " ", "|", "_", " ", "_",
      " ", "_", "_", " ", " ", "_", " ", "_", " ", "_", "_", " ", "_", "_",
      "_", " ", " ", "_", " ", " ", " ", "_", " ", "_", "_", "_", "\n",
      " ", "|", " ", "|", "\\", "/", "|", " ", "|", " ", "|", " ", "'",
      "_", " ", "\\", "|", " ", "|", " ", "'", "_", " ", "U+0060", " ",
      "_", " ", "\\", "|", " ", "|", " ", "|", " ", "/", " ", "_", "_",
      "|", "\n", " ", "|", " ", "|", " ", " ", "|", " ", "|", " ", "|",
      " ", "|", " ", "|", " ", "|", " ", "|", " ", "|", " ", "|", " ", "|",
      " ", "|", " ", "|", " ", "|", "_", "|", " ", "\\", "_", "_", " ",
      "\\", "\n", " ", "|", "_", "|", " ", " ", "|", "_", "|", "_", "|",
      "_", "|", " ", "|", "_", "|", "_", "|", "_", "|", " ", "|", "_", "|",
      " ", "|", "_", "|", "\\", "_", "_", ",", "_", "|", "_", "_", "_",
      "/", "\n", "-", "-", "-", "-", "-", "-", "-", "-", "-", "-", "-",
      "-", "-", "-", "-", "-", "-", "-", "-", "-", "-", "-", "-", "-", "-",
      "-", "-", "-", "-", "-", "-", "-", "-", "-", "-", "-", "-", "-", "-",
      "-", "-", "-", "\n", " ", "A", " ", "M", "i", "n", "i", "m", "a",
      "l", " ", "P", "y", "t", "h", "o", "n", " ", "F", "r", "a", "m", "e",
      "w", "o", "r", "k", "\n", " ", "(", "C", ")", " ", "2", "0", "2",
      "1", " ", "J", "e", "f", "f", " ", "e", "t", ".", " ", "a", "l", ".",
      "\n", " ", "-", "-", "-", "-", "-", "-", "-", "-", "-", "-", "-",
      "-", "-", "-", "-", "-", "-", "-", "-", "-", "-", "-", "-", "-", "-",
      "-", "-", "-", "-", "-", "-", "-", "-", "-", "-", "-", "-", "-", "-",
      "-", "-", "\n">>

(***************************************************************************)
(* class Minimus: the route table and the dispatcher                       *)
(***************************************************************************)

\* a handler is an opaque callable, known by its __name__
PyFunction(name) == <<"function", name>>

\* a == b for two Python values: values of different types are not equal
py_eq(a, b) == TypeOf(a) = TypeOf(b) /\ a = b

\* x in container, for a list or a tuple
py_in(x, container) ==
    \E i \in 1..Len(container[2]) : py_eq(container[2][i], x)

\* the route tuple (route, handler, methods, route_name) that add_route appends
RouteEntry(route, handler, methods, route_name) ==
    PyTuple(<<PyStr(route), handler, methods, route_name>>)

\* the list behind self.routes: None counts as no routes
routes_list(routes) == IF TypeOf(routes) = "None" THEN <<>> ELSE routes[2]

\* the outcome of the scan of the route table
ScanResult(k, i, kw, e) == [kind |-> k, idx |-> i, kwargs |-> kw, exc |-> e]

\* a scan in which the last entry that route_match accepts decides, not the
\* first: the dispatcher that C7 rules out
RECURSIVE scan_routes_last_match(_, _, _, _, _)
scan_routes_last_match(legacy, entries, i, request_method, path_info) ==
    IF i > Len(entries) THEN ScanResult("404", 0, <<>>, NoExc)
    ELSE
    LET route == entries[i][2][1][2]
        methods == entries[i][2][3]
        m == IF legacy THEN Legacy_route_match(route, path_info)
             ELSE route_match(route, path_info)
        later == scan_routes_last_match(legacy, entries, i + 1, request_method, path_info)
    IN  IF m.exc # NoExc THEN ScanResult("raise", i, <<>>, m.exc)
        ELSE IF later.kind # "404" THEN later
        ELSE IF m.match
        THEN IF py_in(PyStr(request_method), methods)
             THEN ScanResult("handler", i, m.kwargs, NoExc)
             ELSE ScanResult("405", i, <<>>, NoExc)
        ELSE later

\* one turn of the for loop of render_to_response, on entry i (1-based), m
\* being the outcome of route_match for its pattern
RECURSIVE scan_routes(_, _, _, _, _)
scan_entry(legacy, entries, i, request_method, path_info, m) ==
    IF m.exc # NoExc THEN ScanResult("raise", i, <<>>, m.exc)
    ELSE IF m.match
    THEN IF py_in(PyStr(request_method), entries[i][2][3])
         THEN ScanResult("handler", i, m.kwargs, NoExc)
         ELSE ScanResult("405", i, <<>>, NoExc)
    ELSE scan_routes(legacy, entries, i + 1, request_method, path_info)

\* the for loop of render_to_response from entry i (1-based) on: the first
\* entry that route_match accepts decides between the handler and the 405
scan_routes(legacy, entries, i, request_method, path_info) ==
    IF i > Len(entries) THEN ScanResult("404", 0, <<>>, NoExc)
    ELSE scan_entry(legacy, entries, i, request_method, path_info,
             IF legacy THEN Legacy_route_match(entries[i][2][1][2], path_info)
             ELSE route_match(entries[i][2][1][2], path_info))

\* what render_to_response yields: the triple (or the exception) and the
\* calls of handlers it made, each <<handler, rid of the environ passed, kwargs>>
Rendered(t, c) == [triple |-> t, called |-> c]

\* the static branch reads the file as bytes: an image that is neither a
\* style sheet nor a script
static_binary(path_info) ==
    /\ ~str_endswith(path_info, <<".", "c", "s", "s">>)
    /\ ~str_endswith(path_info, <<".", "j", "s">>)
    /\ ext_check(path_info, ImageExtensions)

\* the headers argument of Response(...) in the static branch
static_headers(path_info) ==
    IF str_endswith(path_info, <<".", "c", "s", "s">>) THEN PyStr(TextCss)
    ELSE IF str_endswith(path_info, <<".", "j", "s">>) THEN PyStr(TextJavascript)
    ELSE IF ext_check(path_info, ImageExtensions)
    THEN PyList(<<Header(ContentType, mimeguess(path_info)),
                  Header(CacheControl, CacheControlValue)>>)
    ELSE PyNone

\* the static branch after the search and the read: local_fname is the
\* result of search_file, rb the outcome of the read of path_info
static_response(path_info, provider, local_fname, rb) ==
    IF TypeOf(local_fname) = "None"
    THEN Response_new_wsgi(call_not_found_html(provider), PyInt(404), PyNone)
    ELSE IF rb.exc # NoExc THEN Raised(rb.exc)
    ELSE Response_new_wsgi(rb.val, PyInt(200), static_headers(path_info))

\* the static branch of render_to_response (minimus.0.0.3.2.py): the file
\* is searched under the roots, and read by path_info alone
render_static(files, path_info, provider) ==
    static_response(path_info, provider,
        search_file(files, path_info, <<app_dir, static_dir, template_dir>>),
        IF static_binary(path_info)
        THEN get_file(files, path_info, <<>>, TRUE)
        ELSE get_text_file(files, path_info, <<>>))

\* render_to_response at the end of the scan, whose outcome is s
route_response(routes, environ, provider, ret, s) ==
    CASE s.kind = "raise" -> Rendered(Raised(s.exc), <<>>)
      [] s.kind = "handler" ->
            Rendered(IF TypeOf(ret) = "raise" THEN Raised(ret[2])
                     ELSE Response_new_wsgi(ret, PyInt(200), PyNone),
                     << <<routes_list(routes)[s.idx][2][2], environ.rid, s.kwargs>> >>)
      [] s.kind = "405" ->
            Rendered(Response_new_wsgi(PyStr(MethodNotAllowedBody), PyInt(405), PyNone), <<>>)
      [] OTHER ->
            Rendered(Response_new_wsgi(call_not_found_html(provider), PyInt(404), PyNone), <<>>)

\* a dispatcher that scans the routes first and serves a static file only
\* when no route matches: the order that C22 rules out
render_to_response_routes_first(routes, environ, request_method, path_info, files, provider, ret) ==
    IF routes_list(routes) = <<>>
    THEN Rendered(Response_new_wsgi(PyStr(<<"<", "p", "r", "e", ">">> \o logo_text
                                          \o <<"<", "/", "p", "r", "e", ">">>),
                                    PyInt(200), PyNone), <<>>)
    ELSE IF scan_routes(FALSE, routes_list(routes), 1, request_method, path_info).kind = "404"
            /\ str_contains(path_info, static_dir)
    THEN Rendered(render_static(files, path_info, provider), <<>>)
    ELSE route_response(routes, environ, provider, ret,
             scan_routes(FALSE, routes_list(routes), 1, request_method, path_info))

\* Minimus.render_to_response (minimus.0.0.3.2.py), after the read of
\* REQUEST_METHOD: ret is the value the handler returns if it is called,
\* environ is self.environ at the time of the call
render_to_response(routes, environ, request_method, path_info, files, provider, ret) ==
    IF routes_list(routes) = <<>>
    THEN Rendered(Response_new_wsgi(PyStr(<<"<", "p", "r", "e", ">">> \o logo_text
                                          \o <<"<", "/", "p", "r", "e", ">">>),
                                    PyInt(200), PyNone), <<>>)
    ELSE IF str_contains(path_info, static_dir)
    THEN Rendered(render_static(files, path_info, provider), <<>>)
    ELSE route_response(routes, environ, provider, ret,
             scan_routes(FALSE, routes_list(routes), 1, request_method, path_info))

(***************************************************************************)
(* The dispatcher of minimus.py                                            *)
(***************************************************************************)

\* Minimus.make_response(status_code, headers): <<status_str, headers>>
Legacy_make_response(status_code, headers) ==
    << PyStr(int_to_str(status_code) \o <<" ">> \o responses_get(status_code)),
       CASE TypeOf(headers) = "None" -> PyList(<<Header(ContentType, TextHtml)>>)
         [] TypeOf(headers) = "str" ->
               PyList(<<PyTuple(<<PyStr(ContentType), headers>>)>>)
         [] OTHER -> headers >>

\* Minimus.response_encode(x)
Legacy_response_encode(x) ==
    IF TypeOf(x) = "str" THEN PyList(<<PyBytes(str_encode(x[2]))>>) ELSE PyList(<<x>>)

\* the tail of every branch of render_to_response: Content-Length, the
\* length of the body as it is (a str is counted in characters), is appended
\* to the header list, and the body is encoded
Legacy_finish(response_body, status_str, headers) ==
    IF TypeOf(headers) # "list" THEN Raised("AttributeError")
    ELSE IF ~HasLen(response_body) THEN Raised("TypeError")
    ELSE Triple(NoExc, Legacy_response_encode(response_body), status_str,
                PyList(Append(headers[2],
                    Header(ContentLength, int_to_str(PyLen(response_body))))))

\* the image case of the static branch (minimus.py): the bytes of the file
\* are the one chunk, and no encoding takes place
Legacy_image_response(path_info, response_body) ==
    IF ~HasLen(response_body) THEN Raised("TypeError")
    ELSE Triple(NoExc, PyList(<<response_body>>), PyStr(<<"2", "0", "0", " ", "O", "K">>),
             PyList(<<Header(ContentType, mimeguess(path_info)),
                      Header(CacheControl, CacheControlValue),
                      Header(ContentLength, int_to_str(PyLen(response_body)))>>))

\* the static branch after the search and the read (minimus.py)
Legacy_static_response(path_info, provider, local_fname, rb) ==
    IF TypeOf(local_fname) = "None"
    THEN Legacy_finish(call_not_found_html(provider),
                       Legacy_make_response(404, PyNone)[1],
                       Legacy_make_response(404, PyNone)[2])
    ELSE IF rb.exc # NoExc THEN Raised(rb.exc)
    ELSE IF static_binary(path_info) THEN Legacy_image_response(path_info, rb.val)
    ELSE Legacy_finish(rb.val,
             Legacy_make_response(200, static_headers(path_info))[1],
             Legacy_make_response(200, static_headers(path_info))[2])

\* the static branch of render_to_response (minimus.py)
Legacy_render_static(files, path_info, provider) ==
    Legacy_static_response(path_info, provider,
        search_file(files, path_info, <<app_dir, static_dir, template_dir>>),
        IF static_binary(path_info)
        THEN get_file(files, path_info, <<>>, TRUE)
        ELSE get_text_file(files, path_info, <<>>))

\* the handling of the value a handler returned (minimus.py)
Legacy_handler_response(handler_response, path_info) ==
    LET mr200 == Legacy_make_response(200, PyNone)
        mr400 == Legacy_make_response(400, PyNone)
    IN
    IF TypeOf(handler_response) = "tuple"
    THEN IF Len(handler_response[2]) = 3
         THEN Legacy_finish(handler_response[2][1], handler_response[2][2],
                            handler_response[2][3])
         ELSE IF Len(handler_response[2]) < 2 THEN Raised("IndexError")
         ELSE LET sc == handler_response[2][2] IN
              IF TypeOf(sc) = "str" /\ ~int_parses(sc[2]) THEN Raised("ValueError")
              ELSE IF TypeOf(sc) \notin {"str", "int"} THEN Raised("TypeError")
              ELSE LET mr == Legacy_make_response(
                                 IF TypeOf(sc) = "str" THEN digits_value(sc[2]) ELSE sc[2],
                                 PyNone)
                   IN  Legacy_finish(handler_response[2][1], mr[1], mr[2])
    ELSE IF TypeOf(handler_response) = "str"
    THEN Legacy_finish(handler_response, mr200[1], mr200[2])
    ELSE Legacy_finish(
             PyStr(<<"<", "h", "1", ">">> \o path_info \o
                   <<" ", "p", "r", "o", "d", "u", "c", "e", "d", " ", "i", "n",
                     "c", "o", "m", "p", "a", "t", "i", "b", "l", "e", " ", "r",
                     "e", "s", "p", "o", "n", "s", "e", ".", "<", "/", "h", "1",
                     ">", "\n", "<", "p", ">", "N", "o", "n", "e", " ", "t", "y",
                     "p", "e", " ", "r", "e", "t", "u", "r", "n", "e", "d", "<",
                     "/", "p", ">">>),
             mr400[1], mr400[2])

\* render_to_response at the end of the scan, whose outcome is s (minimus.py)
Legacy_route_response(routes, environ, path_info, provider, ret, s) ==
    CASE s.kind = "raise" -> Rendered(Raised(s.exc), <<>>)
      [] s.kind = "handler" ->
            Rendered(Legacy_handler_response(ret, path_info),
                     << <<routes_list(routes)[s.idx][2][2], environ.rid, s.kwargs>> >>)
      [] s.kind = "405" ->
            Rendered(Legacy_finish(PyStr(MethodNotAllowedBody),
                                   Legacy_make_response(405, PyNone)[1],
                                   Legacy_make_response(405, PyNone)[2]), <<>>)
      [] OTHER ->
            Rendered(Legacy_finish(call_not_found_html(provider),
                                   Legacy_make_response(404, PyNone)[1],
                                   Legacy_make_response(404, PyNone)[2]), <<>>)

\* Minimus.render_to_response (minimus.py), after the read of REQUEST_METHOD
Legacy_render_to_response(routes, environ, request_method, path_info, files, provider, ret) ==
    IF routes_list(routes) = <<>>
    THEN Rendered(Legacy_finish(PyStr(<<"<", "p", "r", "e", ">">> \o Legacy_logo_text
                                      \o <<"<", "/", "p", "r", "e", ">">>),
                                Legacy_make_response(200, PyNone)[1],
                                Legacy_make_response(200, PyNone)[2]), <<>>)
    ELSE IF str_contains(path_info, static_dir)
    THEN Rendered(Legacy_render_static(files, path_info, provider), <<>>)
    ELSE Legacy_route_response(routes, environ, path_info, provider, ret,
             scan_routes(TRUE, routes_list(routes), 1, request_method, path_info))

(***************************************************************************)
(* The application as a state machine                                      *)
(***************************************************************************)

VARIABLES
    legacy,           \* TRUE: the application runs minimus.py; FALSE: minimus.0.0.3.2.py
    routes,           \* self.routes: None, or the list of route tuples
    not_found_html,   \* self.not_found_html: the provider installed
    environ,          \* self.environ: the environ wsgi() stored last
    start_response,   \* self.start_response: the request whose callback wsgi() stored last
    files,            \* the file system
    req,              \* the wsgi() calls: req[r] is the frame of request r
    held,             \* the objects the handlers keep between requests
    call,             \* the calls the application code made last, latest first
    session,          \* the Session object of the application, None when it made none
    past              \* what the requests did with the session

vars == <<legacy, routes, not_found_html, environ, start_response, files, req,
          held, call, session, past>>

\* no request has used a session
NoPast == [requests |-> 0, calls |-> 0, carried |-> PyNone, connected |-> PyNone, written |-> {}]

\* the longest route table
MaxRoutes == 2

\* the requests of a server that handles one request at a time (wsgiref),
\* and of a threaded server (waitress, paste, gevent)
OneRequest == {1}
TwoRequests == {1, 2}

GET == <<"G", "E", "T">>
POST == <<"P", "O", "S", "T">>
Methods == {GET, POST}

\* an environ: rid tells the environ objects of different requests apart
Environ(rid, method, path) ==
    [rid |-> rid, REQUEST_METHOD |-> method, PATH_INFO |-> path]
NoEnviron == Environ(0, <<>>, <<>>)

\* the frame of a wsgi() call that has not started
IdleFrame ==
    [pc |-> "idle", environ |-> NoEnviron, request_method |-> <<>>,
     does |-> PyNone, ret |-> PyNone, triple |-> Raised(NoExc), called |-> <<>>,
     started |-> 0]

\* the paths requested
PathX == <<"/", "x">>
PathA == <<"/", "a">>
PathABC == <<"/", "a", "/", "b", "/", "c">>
PathCss == <<"/", "s", "t", "a", "t", "i", "c", "/", "s", ".", "c", "s", "s">>
Paths == {PathX, PathA, PathABC, PathCss}

\* the handlers of the application
Handlers == {PyFunction(<<"h", "1">>), PyFunction(<<"h", "2">>)}

\* the registrations the application makes: the arguments of add_route
Registrations ==
    { <<PathX, PyFunction(<<"h", "1">>), PyNone, PyNone>>,
      <<PathX, PyFunction(<<"h", "2">>), PyList(<<PyStr(POST)>>), PyStr(<<"x">>)>>,
      <<<<"/", "<", "a", ">">>, PyFunction(<<"h", "2">>),
        PyList(<<PyStr(POST)>>), PyNone>>,
      <<<<"/", "a", "/", "b", "/", "<", "p", "a", "t", "h", ":", "p", ">">>,
        PyFunction(<<"h", "1">>), PyList(<<PyStr(GET)>>), PyStr(<<"g">>)>>,
      <<<<"/", "a", "/", "b", "/", "<", "p", ":", "p", "a", "t", "h", ">">>,
        PyFunction(<<"h", "1">>), PyList(<<PyStr(GET)>>), PyStr(<<"g">>)>>,
      <<PathX, PyFunction(<<"h", "1">>), PyStr(GET), PyNone>>,
      <<PathCss, PyFunction(<<"h", "2">>), PyNone, PyNone>> }

\* the registrations of the application served by the threaded server
FewRegistrations ==
    { <<PathX, PyFunction(<<"h", "1">>), PyNone, PyNone>>,
      <<PathA, PyFunction(<<"h", "2">>), PyList(<<PyStr(POST)>>), PyNone>> }

\* the file systems: s.css in the static directory of the working directory,
\* s.css under the application root only, and no file
FileSystems ==
    { { <<<<"s", "t", "a", "t", "i", "c", "/", "s", ".", "c", "s", "s">>,
          PyStr(<<"p", "{", "}">>)>> },
      { <<app_dir \o PathCss, PyStr(<<"p", "{", "}">>)>> },
      {} }

\* the most headers an object kept between requests has when it is returned
MaxHeld == 3

\* the objects a handler module creates once and returns on every request: a
\* header list, and (minimus.0.0.3.2.py) a Response with a str body and one
\* with a dict body
HeldInit ==
    [headers |-> PyList(<<Header(<<"X">>, <<"y">>)>>),
     response |-> PyResponse(PyStr(<<"h", "i">>), PyInt(200), <<>>),
     json |-> PyResponse(PyDict(<< <<<<"a">>, PyInt(1)>> >>), PyInt(200), <<>>)]

\* return app.abort(404), as a handler writes it
AbortCall == <<"abort", 404>>

\* the body of Minimus.abort(status_code) with html_msg=None
abort_html(status_code) ==
    <<"<", "h", "1", ">">> \o int_to_str(status_code) \o <<" ">>
        \o responses_get(status_code) \o <<"<", "/", "h", "1", ">">>

\* Minimus.abort(status_code): minimus.py calls self.start_response and
\* returns the encoded body in a list, minimus.0.0.3.2.py returns a Response
abort(status_code) ==
    IF legacy THEN PyList(<<PyBytes(str_encode(abort_html(status_code)))>>)
    ELSE Response_init(PyStr(abort_html(status_code)), PyInt(status_code), PyNone).obj

\* the handler returns an object kept between requests: ('abc', 200, hl) for
\* the header list hl (k = "headers"), or the Response k
Held(k) == <<"held", k>>

\* the value a handler returns when it returns the object h kept in hd
held_value(hd, h) ==
    IF h = Held("headers")
    THEN PyTuple(<<PyStr(<<"a", "b", "c">>), PyInt(200), hd.headers>>)
    ELSE hd[h[2]]

\* the handler is a subclass of ClassView that defines the methods of the
\* verbs of defined
View(defined) == <<"view", defined>>

\* the handler can do h: minimus.py has no class Response and no ClassView,
\* and the objects kept are followed up to MaxHeld headers
handler_can(h) ==
    /\ TypeOf(h) = "held" =>
           IF h = Held("headers") THEN Len(held.headers[2]) < MaxHeld
           ELSE ~legacy /\ Len(held[h[2]][4]) < MaxHeld
    /\ TypeOf(h) = "view" => ~legacy

\* the call handler(self.environ, **kwargs) of request r, h being what the
\* handler does: the value with which it returns, or <<"raise", exception>>.
\* The view of a ClassView reads REQUEST_METHOD from the environ it is given.
handler_response(r, h) ==
    CASE TypeOf(h) = "abort" -> abort(h[2])
      [] TypeOf(h) = "held" -> held_value(held, h)
      [] TypeOf(h) = "view" ->
            CASE ClassView_dispatcher(h[2], environ.REQUEST_METHOD,
                     scan_routes(legacy, routes_list(routes), 1, req[r].request_method,
                                 req[r].environ.PATH_INFO).kwargs).exc # NoExc
                 -> <<"raise", "TypeError">>
              [] OTHER
                 -> <<"ClassView",
                      ClassView_dispatcher(h[2], environ.REQUEST_METHOD,
                          scan_routes(legacy, routes_list(routes), 1,
                                      req[r].request_method,
                                      req[r].environ.PATH_INFO).kwargs).val>>
      [] OTHER -> h

\* the objects kept between requests after the dispatch of the value that
\* the handler took from them, d being what render_to_response yields.  In
\* minimus.py the header list of a 3-tuple is the list the dispatcher appends
\* Content-Length to and returns; in minimus.0.0.3.2.py Response.__init__
\* reads the headers and then the body of a Response it is given.
held_after(h, d) ==
    IF h = Held("headers")
    THEN IF legacy /\ d.triple.exc = NoExc
         THEN [held EXCEPT !.headers = d.triple.headers]
         ELSE held
    ELSE [held EXCEPT ![h[2]] = Response_body(Response_headers(@).obj).obj]

\* what a handler does: it returns a value, or the result of abort
HandlerResults ==
    { PyStr(<<"h", "i">>),
      PyStr(<<"h", "U+00E9">>),
      PyDict(<< <<<<"a">>, PyInt(1)>> >>),
      PyTuple(<<PyStr(<<"e", "r", "r">>), PyInt(404)>>),
      PyTuple(<<PyStr(<<"e", "r", "r">>),
                PyStr(<<"4", "0", "4", " ", "N", "o", "t", " ", "F", "o", "u", "n", "d">>)>>),
      PyTuple(<<PyStr(<<"e", "r", "r">>), PyInt(404), PyList(<<>>)>>),
      PyTuple(<<PyStr(<<"o", "k">>), PyInt(201), PyList(<<>>)>>),
      PyTuple(<<PyStr(<<"e", "r", "r">>), PyInt(200),
                PyList(<<Header(ContentLength, <<"9", "9">>)>>)>>),
      PyTuple(<<PyStr(<<>>), PyStr(<<"3", "0", "3", " ", "S", "e", "e", " ", "O", "t", "h", "e", "r">>),
                PyList(<<Header(<<"L", "o", "c", "a", "t", "i", "o", "n">>, PathX)>>)>>),
      PyBytes(<<114, 97, 119>>),
      PyList(<<PyBytes(<<97, 98>>), PyBytes(<<99, 100, 101>>)>>),
      PyNone,
      PyInt(5),
      AbortCall }

\* the handlers that are a subclass of ClassView: with get, and with no method
ViewResults == { View({GET}), View({}) }

\* what the handlers do that return the same object on every request
HeldResults == { Held("headers"), Held("response"), Held("json"), PyInt(5) }

\* the values the handlers of the threaded application return
FewResults == { PyStr(<<"h", "i">>), PyNone, PyInt(5) }

Init ==
    /\ legacy \in BOOLEAN
    /\ routes = PyNone
    /\ not_found_html = "_not_found_html"
    /\ environ = NoEnviron
    /\ start_response = 0
    /\ files \in FileSystems
    /\ req = [r \in TwoRequests |-> IdleFrame]
    /\ held = HeldInit
    /\ call = <<>>
    /\ session = PyNone
    /\ past = NoPast

\* the application is being set up: run() has not started the server, which
\* serves until the process ends, so no wsgi() call has been made
Quiescent == \A r \in TwoRequests : req[r].pc = "idle"

\* Minimus.add_route(route, handler, methods, route_name); default_methods
\* is the list that replaces methods=None.  A raise leaves the table as it is.
\* the isinstance test of add_route on methods, which None passes by default
methods_accepted(methods) ==
    IF legacy THEN TypeOf(methods) \in {"None", "list"}
    ELSE TypeOf(methods) \in {"None", "list", "tuple"}

add_route_to(rs, route, handler, methods, route_name) ==
    LET ms == IF TypeOf(methods) = "None"
              THEN (IF legacy THEN PyList(<<PyStr(GET), PyStr(POST)>>)
                    ELSE PyList(<<PyStr(GET)>>))
              ELSE methods
        rl == routes_list(rs)
    IN  IF ~methods_accepted(methods) THEN rs
        ELSE IF \E i \in 1..Len(rl) : py_eq(rl[i], PyStr(route)) THEN PyList(rl)
        ELSE PyList(Append(rl, RouteEntry(route, handler, ms, route_name)))

add_route(route, handler, methods, route_name) ==
    /\ Len(routes_list(routes)) < MaxRoutes
    /\ routes' = add_route_to(routes, route, handler, methods, route_name)
    /\ UNCHANGED <<legacy, not_found_html, environ, start_response, files, req, held, call, session, past>>

\* @app.route(url, methods, route_name) applied to f: in minimus.0.0.3.2.py a
\* route_name of None becomes f.__name__
route(url, f, methods, route_name) ==
    /\ Len(routes_list(routes)) < MaxRoutes
    /\ routes' = add_route_to(routes, url, f, methods,
                     IF ~legacy /\ TypeOf(route_name) = "None"
                     THEN PyStr(f[2]) ELSE route_name)
    /\ UNCHANGED <<legacy, not_found_html, environ, start_response, files, req, held, call, session, past>>

\* app.not_found_html = my404
set_not_found_html ==
    /\ not_found_html = "_not_found_html"
    /\ not_found_html' = "my404"
    /\ UNCHANGED <<legacy, routes, environ, start_response, files, req, held, call, session, past>>

\* Minimus.wsgi, up to the call of render_to_response: the environ and the
\* callback are saved to the application object
wsgi_enter(r, method, path) ==
    /\ req[r].pc \in {"idle", "done", "failed"}
    /\ environ' = Environ(r, method, path)
    /\ start_response' = r
    /\ req' = [req EXCEPT ![r] = [IdleFrame EXCEPT !.pc = "entered",
                                      !.environ = Environ(r, method, path)]]
    /\ UNCHANGED <<legacy, routes, not_found_html, files, held, call, session, past>>

\* render_to_response, its first statement: REQUEST_METHOD is read from
\* self.environ
read_request_method(r) ==
    /\ req[r].pc = "entered"
    /\ req' = [req EXCEPT ![r].pc = "render",
                          ![r].request_method = environ.REQUEST_METHOD]
    /\ UNCHANGED <<legacy, routes, not_found_html, environ, start_response, files, held, call, session, past>>

\* the frame of a wsgi() call when render_to_response has returned d, or
\* raised as d tells
after_render(frame, ret, d) ==
    [frame EXCEPT !.pc = IF d.triple.exc = NoExc THEN "rendered" ELSE "raised",
                  !.ret = ret,
                  !.triple = d.triple,
                  !.called = d.called]

\* the scan of render_to_response for request r ends at a handler
calls_handler(r) ==
    /\ routes_list(routes) # <<>>
    /\ ~str_contains(req[r].environ.PATH_INFO, static_dir)
    /\ scan_routes(legacy, routes_list(routes), 1, req[r].request_method,
                   req[r].environ.PATH_INFO).kind = "handler"

\* render_to_response, the rest: PATH_INFO is the one wsgi() read from its
\* own environ; the handler is called with self.environ and does ret (no
\* handler called, no value returned: ret is None); an abort of minimus.py
\* calls the callback that wsgi() stored last
dispatch(r, ret) ==
    /\ req[r].pc = "render"
    /\ calls_handler(r) \/ ret = PyNone
    /\ handler_can(ret)
    /\ req' = [req EXCEPT
                   ![start_response].started =
                       @ + (IF calls_handler(r) /\ legacy /\ TypeOf(ret) = "abort"
                            THEN 1 ELSE 0),
                   ![r] = after_render([@ EXCEPT !.does = ret], handler_response(r, ret),
                   IF legacy
                   THEN Legacy_render_to_response(routes, environ, req[r].request_method,
                            req[r].environ.PATH_INFO, files, not_found_html,
                            handler_response(r, ret))
                   ELSE render_to_response(routes, environ, req[r].request_method,
                            req[r].environ.PATH_INFO, files, not_found_html,
                            handler_response(r, ret)))]
    /\ held' = IF calls_handler(r) /\ TypeOf(ret) = "held"
               THEN held_after(ret,
                        IF legacy
                        THEN Legacy_render_to_response(routes, environ,
                                 req[r].request_method, req[r].environ.PATH_INFO,
                                 files, not_found_html, handler_response(r, ret))
                        ELSE render_to_response(routes, environ,
                                 req[r].request_method, req[r].environ.PATH_INFO,
                                 files, not_found_html, handler_response(r, ret)))
               ELSE held
    /\ UNCHANGED <<legacy, routes, not_found_html, environ, start_response, files, call, session, past>>

\* Minimus.wsgi, its end: start_response(status_str, headers), and the return
\* of the body, with which the locals of the call are gone
wsgi_start_response(r) ==
    /\ req[r].pc = "rendered"
    /\ req' = [req EXCEPT ![r] = [IdleFrame EXCEPT !.pc = "done",
                                      !.started = req[r].started + 1]]
    /\ UNCHANGED <<legacy, routes, not_found_html, environ, start_response, files, held, call, session, past>>

\* Minimus.wsgi has no except clause: an exception raised under it leaves
\* wsgi() for the server, and start_response is not called
propagate(r) ==
    /\ req[r].pc = "raised"
    /\ req' = [req EXCEPT ![r] = [IdleFrame EXCEPT !.pc = "failed",
                                      !.started = req[r].started]]
    /\ UNCHANGED <<legacy, routes, not_found_html, environ, start_response, files, held, call, session, past>>

\* the server that handles one request at a time: the default of run()
Next ==
    \/ \E a \in Registrations : Quiescent /\ add_route(a[1], a[2], a[3], a[4])
    \/ \E a \in Registrations : Quiescent /\ route(a[1], a[2], a[3], a[4])
    \/ Quiescent /\ set_not_found_html
    \/ \E r \in OneRequest, m \in Methods, p \in Paths : wsgi_enter(r, m, p)
    \/ \E r \in OneRequest : read_request_method(r)
    \/ \E r \in OneRequest, ret \in HandlerResults \cup ViewResults : dispatch(r, ret)
    \/ \E r \in OneRequest : wsgi_start_response(r)
    \/ \E r \in OneRequest : propagate(r)

Spec == Init /\ [][Next]_vars

\* a threaded server: two wsgi() calls of one application overlap
NextConcurrent ==
    \/ \E a \in FewRegistrations : Quiescent /\ add_route(a[1], a[2], a[3], a[4])
    \/ \E a \in FewRegistrations : Quiescent /\ route(a[1], a[2], a[3], a[4])
    \/ Quiescent /\ set_not_found_html
    \/ \E r \in TwoRequests, m \in Methods : wsgi_enter(r, m, PathX)
    \/ \E r \in TwoRequests : read_request_method(r)
    \/ \E r \in TwoRequests, ret \in FewResults : dispatch(r, ret)
    \/ \E r \in TwoRequests : wsgi_start_response(r)
    \/ \E r \in TwoRequests : propagate(r)

\* an application without static files
InitConcurrent == Init /\ files = {}

SpecConcurrent == InitConcurrent /\ [][NextConcurrent]_vars

\* an application whose handlers return objects they keep between requests,
\* served one request at a time
NextRepeated ==
    \/ \E a \in FewRegistrations : Quiescent /\ add_route(a[1], a[2], a[3], a[4])
    \/ \E a \in FewRegistrations : Quiescent /\ route(a[1], a[2], a[3], a[4])
    \/ Quiescent /\ set_not_found_html
    \/ \E r \in OneRequest, m \in Methods, p \in {PathX, PathA} : wsgi_enter(r, m, p)
    \/ \E r \in OneRequest : read_request_method(r)
    \/ \E r \in OneRequest, ret \in HeldResults : dispatch(r, ret)
    \/ \E r \in OneRequest : wsgi_start_response(r)
    \/ \E r \in OneRequest : propagate(r)

SpecRepeated == InitConcurrent /\ [][NextRepeated]_vars

(***************************************************************************)
(* The library called directly: the application's own code, or a test,     *)
(* calls the functions and classes of the module                           *)
(***************************************************************************)

\* one call: the operation, its arguments, the exception raised (or NoExc)
\* and the value returned
ApiCall(op, args, e, v) == [op |-> op, args |-> args, exc |-> e, val |-> v]

\* the record of r = Response(...) followed by the read of r.wsgi: init is
\* the outcome of the constructor
Response_call(arg, init) ==
    ApiCall("Response", <<arg>>,
            Response_wsgi_of(init).exc,
            [triple |-> Response_wsgi_of(init),
             tuple |-> PyTuple(<<Response_wsgi_of(init).body, Response_wsgi_of(init).status,
                                 Response_wsgi_of(init).headers>>),
             obj |-> IF init.exc = NoExc THEN Response_after_wsgi(init.obj) ELSE PyNone])

\* r = Response(v); r.wsgi
Response_new(v) ==
    /\ ~legacy
    /\ call' = <<Response_call(v, Response_init(v, PyInt(200), PyNone))>>
    /\ UNCHANGED <<legacy, routes, not_found_html, environ, start_response, files, req, held, session, past>>

\* Response(r).wsgi for the Response r that the call before built and read
Response_of_response ==
    /\ Len(call) = 1 /\ call[1].op = "Response" /\ call[1].exc = NoExc
    /\ call' = <<Response_call(call[1].val.obj,
                     Response_init(call[1].val.obj, PyInt(200), PyNone)), call[1]>>
    /\ UNCHANGED <<legacy, routes, not_found_html, environ, start_response, files, req, held, session, past>>

\* Response(r.wsgi).wsgi for the tuple r.wsgi that the call before read
Response_of_wsgi ==
    /\ Len(call) = 1 /\ call[1].op = "Response" /\ call[1].exc = NoExc
    /\ call' = <<Response_call(call[1].val.tuple,
                     Response_init(call[1].val.tuple, PyInt(200), PyNone)),
                 call[1]>>
    /\ UNCHANGED <<legacy, routes, not_found_html, environ, start_response, files, req, held, session, past>>

\* the patterns, the paths and the keyword arguments that the calls of
\* route_match and route_encode are made with
Patterns ==
    { <<"/", "x">>,
      <<"/", "a", "/", "<", "n", ">">>,
      <<"/", "<", "n", ">", "/", "<", "m", ">">>,
      <<"/", "a", "/", "<", "n", ">", "/", "<", "n", ">">>,
      <<"/", "b", "/", "<", "p", "a", "t", "h", ":", "p", ">">>,
      <<"/", "a", "/", "b", "/", "<", "p", "a", "t", "h", ":", "p", ">">>,
      <<"/", "<", "p", "a", "t", "h", ":", "p", ">", "/", "e">>,
      <<"/", "b", "/", "<", "p", ":", "p", "a", "t", "h", ">">>,
      <<"/", "<", "n", ">", "/", "<", "m">>,
      <<"/", "<", "n", ">", "/", ">", "m", "<">> }

MatchPaths ==
    { <<"/", "x">>,
      <<"/", "a">>,
      <<"/", "a", "/", "x">>,
      <<"/", "a", "/">>,
      <<"/", "a", "/", "x", "/", "y">>,
      <<"/", "x", "/", "y">>,
      <<"/", "b", "/", "/", "x">>,
      <<"/", "b">>,
      <<"/", "b", "/", "a", "/", "c">> }

EncodeVars ==
    { <<<<<<"n">>, PyStr(<<"x">>)>>>>,
      <<<<<<"n">>, PyStr(<<"x", "/", "y">>)>>>>,
      <<<<<<"n">>, PyStr(<<>>)>>>>,
      <<<<<<"n">>, PyInt(0)>>>>,
      <<<<<<"n">>, PyInt(1)>>>>,
      <<>>,
      <<<<<<"n">>, PyStr(<<"x">>)>>, <<<<"m">>, PyStr(<<"y">>)>>>>,
      <<<<<<"p">>, PyStr(<<"a">>)>>>>,
      <<<<<<"p", "a", "t", "h", ":", "p">>, PyStr(<<"a">>)>>>> }

\* the call before, kept when the next call, of pattern P, takes the value v
\* that the call before returned for P from operation op
call_before(op, P, v) ==
    IF call # <<>> /\ call[1].op = op /\ call[1].exc = NoExc
       /\ call[1].args[1] = P /\ call[1].val = v
    THEN <<call[1]>> ELSE <<>>

\* route_match(P, Q) of the revision: the kwargs returned are a dict of str
call_route_match(P, Q) ==
    LET m == IF legacy THEN Legacy_route_match(P, Q) ELSE route_match(P, Q) IN
    /\ call' = <<ApiCall("route_match", <<P, Q>>, m.exc,
                   <<m.match, [i \in 1..Len(m.kwargs) |->
                                 <<m.kwargs[i][1], PyStr(m.kwargs[i][2])>>]>>)>>
               \o call_before("route_encode", P, PyStr(Q))
    /\ UNCHANGED <<legacy, routes, not_found_html, environ, start_response, files, req, held, session, past>>

\* route_encode(P, **kwargs)
call_route_encode(P, kwargs) ==
    /\ call' = <<ApiCall("route_encode", <<P, kwargs>>, route_encode(P, kwargs).exc,
                   route_encode(P, kwargs).val)>>
               \o call_before("route_match", P, <<TRUE, kwargs>>)
    /\ UNCHANGED <<legacy, routes, not_found_html, environ, start_response, files, req, held, session, past>>

\* encode(key, string) of minimus.py
call_encode(key, string) ==
    /\ legacy
    /\ call' = <<ApiCall("encode", <<key, string>>, encode(key, string).exc,
                   encode(key, string).val)>>
    /\ UNCHANGED <<legacy, routes, not_found_html, environ, start_response, files, req, held, session, past>>

\* decode(key, encval) for the value encval that encode(key, string) returned
call_decode ==
    /\ legacy
    /\ Len(call) = 1 /\ call[1].op = "encode" /\ call[1].exc = NoExc
    /\ call' = <<ApiCall("decode", <<call[1].args[1], call[1].val>>,
                   decode(call[1].args[1], call[1].val).exc,
                   decode(call[1].args[1], call[1].val).val), call[1]>>
    /\ UNCHANGED <<legacy, routes, not_found_html, environ, start_response, files, req, held, session, past>>

\* the most entries of a MultiDict that is parsed again
MaxFormvars == 5

\* parse_formvars(env, include_get_vars) of minimus.0.0.3.2.py: the first call
\* of a request is kept when env is the environ that the call before left
call_parse_formvars(env, include_get_vars) ==
    /\ ~legacy
    /\ env.parsed_formvars # PyNone => Len(env.parsed_formvars[2]) < MaxFormvars
    /\ call' = <<ApiCall("parse_formvars", <<env, include_get_vars>>, NoExc,
                   parse_formvars(env, include_get_vars))>>
               \o (IF env.parsed_formvars # PyNone THEN <<call[Len(call)]>> ELSE <<>>)
    /\ UNCHANGED <<legacy, routes, not_found_html, environ, start_response, files, req, held, session, past>>

\* the calls of a program that uses the library; a path matched, or a dict
\* encoded, is one drawn or the one that the call before returned
NextApi ==
    \/ \E v \in HandlerResults \ {AbortCall} : Response_new(v)
    \/ Response_of_response
    \/ Response_of_wsgi
    \/ \E P \in Patterns,
          Q \in MatchPaths \cup {call[i].val[2] : i \in {j \in 1..Len(call) :
                    call[j].op = "route_encode" /\ TypeOf(call[j].val) = "str"}} :
          call_route_match(P, Q)
    \/ \E P \in Patterns,
          kw \in EncodeVars \cup {call[i].val[2] : i \in {j \in 1..Len(call) :
                    call[j].op = "route_match" /\ call[j].exc = NoExc}} :
          call_route_encode(P, kw)
    \/ \E key \in { <<"k">>, <<"I", "a", "m", "A", "S", "e", "c", "r", "e", "t">> },
          string \in { <<>>, <<"h", "i">>, <<"S", "a", "n", "t", "a", " ", "C">>,
                       <<"h", "U+00E9">>, <<"~", "~">> } :
          call_encode(key, string)
    \/ call_decode
    \/ \E env \in { [QUERY_STRING |-> qs, form |-> form, parsed_formvars |-> PyNone] :
                       qs \in { <<>>, <<"a", "=", "1">>,
                                <<"a", "=", "1", "&", "b", "=">> },
                       form \in { <<>>, << <<<<"x">>, <<"9">>>> >> } }
                   \cup { call[i].val.environ : i \in {j \in 1..Len(call) :
                             j = 1 /\ call[j].op = "parse_formvars"} },
          include_get_vars \in BOOLEAN :
          call_parse_formvars(env, include_get_vars)

SpecApi == InitConcurrent /\ [][NextApi]_vars

\* app.add_route(pattern, handler, methods, route_name) called by a program that
\* sets an application up: the call returns None or raises ValueError
call_add_route(pattern, handler, methods, route_name) ==
    /\ Len(routes_list(routes)) < MaxRoutes
    /\ routes' = add_route_to(routes, pattern, handler, methods, route_name)
    /\ call' = <<ApiCall("add_route", <<pattern, handler, methods, route_name>>,
                   IF methods_accepted(methods) THEN NoExc ELSE "ValueError",
                   PyNone)>>
    /\ UNCHANGED <<legacy, not_found_html, environ, start_response, files, req, held, session, past>>

\* Minimus.route_by_name(route_name) of the table rs, which is None until the
\* first route is added: iterating None raises TypeError
route_by_name(rs, route_name) ==
    IF TypeOf(rs) = "None" THEN Outcome("TypeError", PyNone, PyNone)
    ELSE IF \E i \in 1..Len(rs[2]) : py_eq(route_name, rs[2][i][2][4])
    THEN Outcome(NoExc,
           rs[2][CHOOSE i \in 1..Len(rs[2]) :
                     /\ py_eq(route_name, rs[2][i][2][4])
                     /\ \A j \in 1..(i - 1) :
                           ~py_eq(route_name, rs[2][j][2][4])][2][1],
           PyNone)
    ELSE Outcome(NoExc, PyNone, PyNone)

\* app.route_by_name(route_name)
call_route_by_name(route_name) ==
    /\ call' = <<ApiCall("route_by_name", <<route_name>>,
                   route_by_name(routes, route_name).exc,
                   route_by_name(routes, route_name).val)>>
    /\ UNCHANGED <<legacy, routes, not_found_html, environ, start_response, files, req, held, session, past>>

\* a program that sets an application up and looks its routes up by name:
\* two routes share the name n; the methods are the default, a list of str,
\* an empty list, a list of an int, a str and a tuple
NextRoutes ==
    \/ \E g \in { <<PathX, PyFunction(<<"h", "1">>), PyNone, PyStr(<<"n">>)>>,
                  <<PathA, PyFunction(<<"h", "2">>), PyList(<<PyStr(POST)>>),
                    PyStr(<<"n">>)>>,
                  <<PathA, PyFunction(<<"h", "1">>), PyList(<<>>), PyNone>>,
                  <<PathX, PyFunction(<<"h", "1">>), PyList(<<PyInt(5)>>),
                    PyStr(<<"m">>)>>,
                  <<PathX, PyFunction(<<"h", "2">>), PyStr(GET), PyNone>>,
                  <<PathA, PyFunction(<<"h", "2">>), PyTuple(<<PyStr(GET)>>),
                    PyNone>> } :
          call_add_route(g[1], g[2], g[3], g[4])
    \/ \E name \in {PyStr(<<"n">>), PyStr(<<"m">>), PyStr(<<"z">>), PyNone} :
          call_route_by_name(name)

SpecRoutes == InitConcurrent /\ [][NextRoutes]_vars

(***************************************************************************)
(* Sessions and csrf tokens (minimus.0.0.3.2.py)                           *)
(***************************************************************************)

\* the cookie_name of Session.__init__
CookieName == <<"m", "s", "e", "s", "s", "i", "o", "n">>

\* {}, d[k], and d after d[k] = v, of a dict whose keys are strings
EmptyDict == <<>>
dict_get(d, k) == IF k \in DOMAIN d THEN d[k] ELSE PyNone
dict_set(d, k, v) == [j \in DOMAIN d \cup {k} |-> IF j = k THEN v ELSE d[j]]

\* get_cookie(environ, name): the value of the last name=value pair of the
\* HTTP_COOKIE header that has the name, None when there is none; the
\* headers drawn hold only pairs that SimpleCookie accepts
get_cookie(HTTP_COOKIE, name) ==
    LET pairs == IF HTTP_COOKIE = PyNone THEN <<>>
                 ELSE SelectSeq(str_split(HTTP_COOKIE[2], ";"),
                                LAMBDA p : str_startswith(p, name \o <<"=">>))
    IN  IF pairs = <<>> THEN PyNone
        ELSE PyStr(SubSeq(pairs[Len(pairs)], Len(name) + 2, Len(pairs[Len(pairs)])))

\* Session(app, mode=mode): the object, with app.environ's HTTP_COOKIE and
\* the files of sessions_dir.  data is the dict self.data refers to: the one
\* of self._sessions[data_of], or, when data_of is None, the dict own that
\* no entry of self._sessions shares.
Session_init(mode) ==
    [_mode |-> mode, _key |-> PyNone, data_of |-> PyNone, own |-> EmptyDict,
     _sessions |-> EmptyDict, dir |-> EmptyDict, HTTP_COOKIE |-> PyNone]

PySession(s) == <<"Session", s>>

\* self.data
Session_data(s) == IF s.data_of = PyNone THEN s.own ELSE s._sessions[s.data_of[2]]

\* self.data[k] = v
Session_setitem(s, k, v) ==
    IF s.data_of = PyNone THEN [s EXCEPT !.own = dict_set(@, k, v)]
    ELSE [s EXCEPT !._sessions[s.data_of[2]] = dict_set(@, k, v)]

\* Session.session_key: the cookie's value when it is truthy, else the token
\* that token_generator(20) makes, here token
session_key(s, token) ==
    LET this_session_key == get_cookie(s.HTTP_COOKIE, CookieName) IN
    IF py_bool(this_session_key) THEN this_session_key ELSE token

\* Session._inject_cookie(): the cookie of a new session_key is appended
_inject_cookie(s, token) ==
    LET cookies == IF s.HTTP_COOKIE # PyNone /\ s.HTTP_COOKIE[2] # <<>>
                   THEN str_split(s.HTTP_COOKIE[2], ";") ELSE <<>>
        key == session_key(s, token)
        cookie == CookieName \o <<"=">> \o key[2]
    IN  [s EXCEPT !._key = key,
                  !.HTTP_COOKIE = PyStr(str_join(<<";">>, Append(cookies, cookie)))]

\* Session._save(session_key): the file is named by a session_key of its
\* own (fname), the argument is not used, nothing is stored in memory mode
Session_save(s, arg, fname, inject) ==
    _inject_cookie(
        IF s._mode = "file"
        THEN [s EXCEPT !.dir = dict_set(s.dir, session_key(s, fname)[2], Session_data(s))]
        ELSE s,
        inject)

\* Session._load(session_key): fname, save and inject are the tokens of the
\* session_key calls that follow the one of the argument
Session_load(s, arg, fname, save, inject) ==
    IF s._mode = "file"
    THEN IF session_key(s, fname)[2] \in DOMAIN s.dir
         THEN [s EXCEPT !._key = session_key(s, fname), !.data_of = PyNone,
                        !.own = s.dir[session_key(s, fname)[2]]]
         ELSE Session_save([s EXCEPT !.data_of = PyNone, !.own = EmptyDict],
                           arg, save, inject)
    ELSE IF arg[2] \in DOMAIN s._sessions
         THEN [s EXCEPT !._key = session_key(s, fname), !.data_of = arg]
         ELSE [s EXCEPT !._key = session_key(s, fname),
                        !._sessions = dict_set(s._sessions, arg[2], EmptyDict)]

\* Session.connect() and Session.commit(); tokens are the tokens that the
\* session_key calls draw, in the order of the calls
Session_connect(s, tokens) ==
    Session_load(s, session_key(s, tokens[1]), tokens[2], tokens[3], tokens[4])

Session_commit(s, tokens) ==
    Session_save(s, session_key(s, tokens[1]), tokens[2], tokens[3])

\* csrf_token(session): the session after, token being the one generated
csrf_token(s, token, tokens) ==
    Session_commit(Session_setitem(Session_connect(s, tokens), "csrf_token", token),
                   SubSeq(tokens, 5, 7))

\* validate_csrf(session, csrf_token): the value returned
validate_csrf(s, token, tokens) ==
    py_eq(dict_get(Session_data(Session_connect(s, tokens)), "csrf_token"), token)

\* the session keys of the cookies that clients send, and the outcomes of
\* token_generator(20) and of token_generator(32, ...)
ClientKeys == { PyStr(<<"A">>), PyStr(<<"B">>) }
SessionTokens == { PyStr(<<"S">>), PyStr(<<"T">>) }
CsrfTokens == { PyStr(<<"t">>), PyStr(<<"u">>) }

\* the tokens that the n session_key calls of one operation draw: none is
\* made while the request has a session cookie
TokenDraws(n) ==
    IF py_bool(get_cookie(session[2].HTTP_COOKIE, CookieName))
    THEN { [i \in 1..n |-> PyNone] }
    ELSE [1..n -> SessionTokens]

\* the most requests served, and the most cookies of one HTTP_COOKIE header
MaxRequests == 2
MaxCookies == 3

\* the most calls that the handlers make on the session
MaxCalls == 3

CookieCount(HTTP_COOKIE) ==
    IF HTTP_COOKIE = PyNone THEN 0 ELSE Len(str_split(HTTP_COOKIE[2], ";"))

\* wsgi(environ, start_response) stores the environ of a new request, whose
\* HTTP_COOKIE is the one the client sent
session_request(HTTP_COOKIE) ==
    /\ session # PyNone
    /\ past.requests < MaxRequests
    /\ session' = PySession([session[2] EXCEPT !.HTTP_COOKIE = HTTP_COOKIE])
    /\ past' = [past EXCEPT !.requests = @ + 1, !.carried = HTTP_COOKIE]
    /\ call' = <<ApiCall("wsgi", <<HTTP_COOKIE>>, NoExc, PyNone)>>
    /\ UNCHANGED <<legacy, routes, not_found_html, environ, start_response, files, req, held>>

\* the session key whose session connect() looks for: the one of the file
\* name in file mode, the argument of _load in memory mode
loaded_key(s, tokens) ==
    IF s._mode = "file" THEN session_key(s, tokens[2]) ELSE session_key(s, tokens[1])

\* the handlers run while a request is served (past.requests > 0): before,
\* app.environ is None

\* session.connect() in a handler; the call records the key and whether a
\* session was stored under it
call_connect(tokens) ==
    /\ session # PyNone
    /\ past.requests > 0 /\ past.calls < MaxCalls
    /\ CookieCount(Session_connect(session[2], tokens).HTTP_COOKIE) <= MaxCookies
    /\ session' = PySession(Session_connect(session[2], tokens))
    /\ past' = [past EXCEPT !.calls = @ + 1, !.connected = loaded_key(session[2], tokens)]
    /\ call' = <<ApiCall("connect", <<loaded_key(session[2], tokens)>>, NoExc,
                   <<"bool", loaded_key(session[2], tokens)[2] \in
                                 DOMAIN (IF session[2]._mode = "file" THEN session[2].dir
                                         ELSE session[2]._sessions)>>)>>
    /\ UNCHANGED <<legacy, routes, not_found_html, environ, start_response, files, req, held>>

\* session.data['x'] = v in a handler
session_write(v) ==
    /\ session # PyNone
    /\ past.requests > 0 /\ past.calls < MaxCalls
    /\ session' = PySession(Session_setitem(session[2], "x", v))
    /\ past' = [past EXCEPT !.calls = @ + 1, !.written = @ \cup {<<past.connected, "x", v>>}]
    /\ call' = <<ApiCall("write", <<v>>, NoExc, PyNone)>>
    /\ UNCHANGED <<legacy, routes, not_found_html, environ, start_response, files, req, held>>

\* session.commit() in a handler
call_commit(tokens) ==
    /\ session # PyNone
    /\ past.requests > 0 /\ past.calls < MaxCalls
    /\ CookieCount(Session_commit(session[2], tokens).HTTP_COOKIE) <= MaxCookies
    /\ session' = PySession(Session_commit(session[2], tokens))
    /\ call' = <<ApiCall("commit", <<>>, NoExc, PyNone)>>
    /\ past' = [past EXCEPT !.calls = @ + 1]
    /\ UNCHANGED <<legacy, routes, not_found_html, environ, start_response, files, req, held>>

\* csrf_token(session) in a handler
call_csrf_token(token, tokens) ==
    /\ session # PyNone
    /\ past.requests > 0 /\ past.calls < MaxCalls
    /\ CookieCount(csrf_token(session[2], token, tokens).HTTP_COOKIE) <= MaxCookies
    /\ session' = PySession(csrf_token(session[2], token, tokens))
    /\ past' = [past EXCEPT !.calls = @ + 1, !.connected = loaded_key(session[2], tokens),
                            !.written = @ \cup {<<get_cookie(session'[2].HTTP_COOKIE, CookieName),
                                                  "csrf_token", token>>}]
    /\ call' = <<ApiCall("csrf_token", <<>>, NoExc, token)>>
    /\ UNCHANGED <<legacy, routes, not_found_html, environ, start_response, files, req, held>>

\* validate_csrf(session, token) in a handler
call_validate_csrf(token, tokens) ==
    /\ session # PyNone
    /\ past.requests > 0 /\ past.calls < MaxCalls
    /\ CookieCount(Session_connect(session[2], tokens).HTTP_COOKIE) <= MaxCookies
    /\ session' = PySession(Session_connect(session[2], tokens))
    /\ past' = [past EXCEPT !.calls = @ + 1, !.connected = loaded_key(session[2], tokens)]
    /\ call' = <<ApiCall("validate_csrf", <<loaded_key(session[2], tokens), token>>, NoExc,
                   <<"bool", validate_csrf(session[2], token, tokens)>>)>>
    /\ UNCHANGED <<legacy, routes, not_found_html, environ, start_response, files, req, held>>

\* an application of minimus.0.0.3.2.py that made session = Session(app, mode=...)
InitSession ==
    /\ legacy = FALSE
    /\ routes = PyNone
    /\ not_found_html = "_not_found_html"
    /\ environ = NoEnviron
    /\ start_response = 0
    /\ files = {}
    /\ req = [r \in TwoRequests |-> IdleFrame]
    /\ held = HeldInit
    /\ call = <<>>
    /\ session \in { PySession(Session_init(mode)) : mode \in {"file", "memory"} }
    /\ past = NoPast

NextSession ==
    \/ \E HTTP_COOKIE \in {PyNone} \cup { PyStr(CookieName \o <<"=">> \o k[2]) :
                                           k \in ClientKeys \cup SessionTokens } :
          session_request(HTTP_COOKIE)
    \/ \E tokens \in TokenDraws(4) : call_connect(tokens)
    \/ session_write(PyStr(<<"1">>))
    \/ \E tokens \in TokenDraws(3) : call_commit(tokens)
    \/ \E token \in CsrfTokens, tokens \in TokenDraws(7) : call_csrf_token(token, tokens)
    \/ \E token \in CsrfTokens \cup {PyNone}, tokens \in TokenDraws(4) :
          call_validate_csrf(token, tokens)

SpecSession == InitSession /\ [][NextSession]_vars

(***************************************************************************)
(* Properties                                                              *)
(***************************************************************************)

\* render_to_response of request r has just returned or raised
Rendering(r) == req[r].pc \in {"rendered", "raised"}

\* the status code of a triple: the number that starts the status line
StatusCode(t) ==
    IF TypeOf(t.status) = "int" THEN t.status[2]
    ELSE digits_value(str_split(t.status[2], " ")[1])

\* the positions of the headers of a triple that are called name
HeadersNamed(t, name) ==
    {i \in 1..Len(t.headers[2]) : t.headers[2][i][2][1] = PyStr(name)}

\* the sum of the byte lengths of the chunks of a body
RECURSIVE ChunksLength(_)
ChunksLength(chunks) ==
    IF chunks = <<>> THEN 0 ELSE Len(chunks[1][2]) + ChunksLength(Tail(chunks))

\* entry i of the route table structurally matches the path
StructuralMatch(i, path) ==
    LET pattern == routes_list(routes)[i][2][1][2]
        m == IF legacy THEN Legacy_route_match(pattern, path)
             ELSE route_match(pattern, path)
    IN  m.exc = NoExc /\ m.match

HasMatch(path) == \E i \in 1..Len(routes_list(routes)) : StructuralMatch(i, path)

\* the first entry, in registration order, that structurally matches the path
FirstMatch(path) ==
    CHOOSE i \in 1..Len(routes_list(routes)) :
        /\ StructuralMatch(i, path)
        /\ \A j \in 1..(i - 1) : ~StructuralMatch(j, path)

\* the request goes to the route scan: there are routes and the path does
\* not name the static directory
Routed(r) ==
    /\ routes_list(routes) # <<>>
    /\ ~str_contains(req[r].environ.PATH_INFO, static_dir)

\* C1: no two entries of the route table have the same pattern string
C1_NoDuplicatePattern ==
    \A i, j \in 1..Len(routes_list(routes)) :
        i # j => routes_list(routes)[i][2][1] # routes_list(routes)[j][2][1]

\* C2: whatever value the handler returned, render_to_response returns a
\* triple and does not raise
C2_NeverRaises ==
    \A r \in TwoRequests : req[r].called # <<>> => req[r].triple.exc = NoExc

\* C3: when two wsgi() calls overlap, the method check of each request uses
\* the REQUEST_METHOD of its own environ and its handler is called with its
\* own environ
C3_OwnEnviron ==
    \A r \in TwoRequests :
        /\ req[r].pc \in {"render", "rendered", "raised"}
              => req[r].request_method = req[r].environ.REQUEST_METHOD
        /\ \A i \in 1..Len(req[r].called) : req[r].called[i][2] = r

\* C4: every triple of the dispatcher has exactly one Content-Length header
\* and its value is the sum of the byte lengths of the chunks of the body
C4_ContentLength ==
    \A r \in TwoRequests :
        req[r].pc = "rendered" =>
            /\ Cardinality(HeadersNamed(req[r].triple, ContentLength)) = 1
            /\ \A i \in HeadersNamed(req[r].triple, ContentLength) :
                  req[r].triple.headers[2][i][2][2]
                      = PyStr(int_to_str(ChunksLength(req[r].triple.body[2])))

\* C5: every triple of Response(...).wsgi has exactly one Content-Type
\* header: text/html when the handler returned a str, application/json when
\* it returned a mapping, and one also when it supplied its own header list
C5_OneContentType ==
    \A r \in TwoRequests :
        (~legacy /\ req[r].pc = "rendered") =>
            /\ Cardinality(HeadersNamed(req[r].triple, ContentType)) = 1
            /\ \A i \in HeadersNamed(req[r].triple, ContentType) :
                  /\ (req[r].called # <<>> /\ TypeOf(req[r].ret) = "str")
                        => req[r].triple.headers[2][i][2][2] = PyStr(TextHtml)
                  /\ (req[r].called # <<>> /\ TypeOf(req[r].ret) = "dict")
                        => req[r].triple.headers[2][i][2][2] = PyStr(ApplicationJson)

\* C6: when the first entry that structurally matches the path does not list
\* the request method, the response is 405 and no handler is called, also
\* when a later entry matches and allows the method
C6_MethodNotAllowed ==
    \A r \in TwoRequests :
        ( /\ Rendering(r) /\ Routed(r)
          /\ HasMatch(req[r].environ.PATH_INFO)
          /\ ~py_in(PyStr(req[r].environ.REQUEST_METHOD),
                    routes_list(routes)[FirstMatch(req[r].environ.PATH_INFO)][2][3]) )
        => /\ req[r].triple.exc = NoExc
           /\ StatusCode(req[r].triple) = 405
           /\ req[r].called = <<>>

\* C7: at most one handler is called per request, and a handler that is
\* called is the handler of the first entry, in registration order, that
\* structurally matches the path; that entry lists the request method
C7_FirstMatchWins ==
    \A r \in TwoRequests :
        /\ Len(req[r].called) <= 1
        /\ (Rendering(r) /\ req[r].called # <<>>) =>
              /\ Routed(r)
              /\ HasMatch(req[r].environ.PATH_INFO)
              /\ LET e == routes_list(routes)[FirstMatch(req[r].environ.PATH_INFO)] IN
                    /\ req[r].called[1][1] = e[2][2]
                    /\ py_in(PyStr(req[r].environ.REQUEST_METHOD), e[2][3])

\* C7, its case: a handler was called while a later entry with another
\* handler matches the path too
C7_Witness ==
    \E r \in TwoRequests :
        /\ req[r].pc = "rendered" /\ req[r].called # <<>>
        /\ \E i \in 1..Len(routes_list(routes)) :
              /\ i > FirstMatch(req[r].environ.PATH_INFO)
              /\ StructuralMatch(i, req[r].environ.PATH_INFO)
              /\ routes_list(routes)[i][2][2] # req[r].called[1][1]

\* C8: with routes, a path that is not static and that no entry matches
\* structurally gets 404 with the body of the not_found_html provider, and no
\* handler is called
C8_NotFound ==
    \A r \in TwoRequests :
        (Rendering(r) /\ Routed(r) /\ ~HasMatch(req[r].environ.PATH_INFO))
        => /\ req[r].triple.exc = NoExc
           /\ StatusCode(req[r].triple) = 404
           /\ req[r].triple.body
                 = PyList(<<PyBytes(str_encode(call_not_found_html(not_found_html)[2]))>>)
           /\ req[r].called = <<>>

\* a (body, status) or (body, status, headers) tuple with a str body and a
\* status that is an int or an 'NNN reason' str
IsStatusTuple(v) ==
    /\ TypeOf(v) = "tuple"
    /\ Len(v[2]) \in {2, 3}
    /\ TypeOf(v[2][1]) = "str"
    /\ \/ TypeOf(v[2][2]) = "int"
       \/ TypeOf(v[2][2]) = "str" /\ int_parses(str_split(v[2][2][2], " ")[1])

\* C9: for a handler result (body, status) or (body, status, headers) with a
\* str body, Response(result).wsgi has the status code given and the encoded
\* body
C9_TupleResult ==
    \A r \in TwoRequests :
        (~legacy /\ Rendering(r) /\ req[r].called # <<>> /\ IsStatusTuple(req[r].ret))
        => /\ req[r].triple.exc = NoExc
           /\ StatusCode(req[r].triple)
                 = (IF TypeOf(req[r].ret[2][2]) = "int" THEN req[r].ret[2][2][2]
                    ELSE digits_value(str_split(req[r].ret[2][2][2], " ")[1]))
           /\ req[r].triple.body = PyList(<<PyBytes(str_encode(req[r].ret[2][1][2]))>>)

\* C10: a handler result of no supported shape (None, a number) gets status
\* 400 and the 'incompatible response' diagnostic body
C10_Incompatible ==
    \A r \in TwoRequests :
        (Rendering(r) /\ req[r].called # <<>> /\ TypeOf(req[r].ret) \in {"None", "int"})
        => /\ req[r].triple.exc = NoExc
           /\ StatusCode(req[r].triple) = 400
           /\ Len(req[r].triple.body[2]) = 1
           /\ str_contains(req[r].triple.body[2][1][2],
                  str_encode(<<"n", "c", "o", "m", "p", "a", "t", "i", "b", "l", "e",
                               " ", "r", "e", "s", "p", "o", "n", "s", "e">>))

\* C11: a Response built from a response r, or from the triple r.wsgi, has
\* the triple of r: the same body, status line and headers, none added
C11_Idempotent ==
    (Len(call) = 2 /\ call[1].op = "Response" /\ call[2].op = "Response")
    => /\ call[1].exc = NoExc
       /\ call[1].val.triple = call[2].val.triple

\* C12: start_response is not called while the triple of a request is being
\* computed, and it has been called exactly once when wsgi() is over, also
\* when the handler called abort
C12_StartResponseOnce ==
    \A r \in TwoRequests :
        /\ req[r].pc \in {"entered", "render", "rendered", "raised"}
              => req[r].started = 0
        /\ req[r].pc \in {"done", "failed"} => req[r].started = 1

\* the triple the dispatcher makes of the value v that a handler returned
HandlerTriple(v, path_info) ==
    IF legacy THEN Legacy_handler_response(v, path_info)
    ELSE Response_new_wsgi(v, PyInt(200), PyNone)

\* C13: the objects that the handlers return on every request stay as they
\* were created, and every response made of one of them has the headers of
\* the first such response, the one made of the object as created
C13_ResultNotMutated ==
    /\ held = HeldInit
    /\ \A r \in TwoRequests :
          (req[r].pc = "rendered" /\ req[r].called # <<>> /\ TypeOf(req[r].does) = "held")
          => req[r].triple.headers
                = HandlerTriple(held_value(HeldInit, req[r].does),
                                req[r].environ.PATH_INFO).headers

\* the segments of a pattern or of a path
Segments(p) == str_split(p, "/")

\* a literal segment, and a variable segment: all of it is <name>
IsPlainSegment(seg) == str_find(seg, "<") = -1 /\ str_find(seg, ">") = -1
IsVarSegment(seg) ==
    /\ Len(seg) >= 3 /\ seg[1] = "<" /\ seg[Len(seg)] = ">"
    /\ IsPlainSegment(SubSeq(seg, 2, Len(seg) - 1))

\* what marks a greedy segment: <path:name>, and in minimus.py <name:path>
GreedyPrefix == <<"p", "a", "t", "h", ":">>
LegacyGreedySuffix == <<":", "p", "a", "t", "h">>

\* the text between the brackets of a variable segment, and the variable it
\* names: a greedy segment <path:name> (in minimus.py <name:path>) names name
SegmentText(seg) == SubSeq(seg, 2, Len(seg) - 1)
VarName(seg) ==
    str_remove(str_remove(SegmentText(seg), GreedyPrefix), LegacyGreedySuffix)

\* a <name> segment: a variable segment that is not greedy
IsNameSegment(seg) == IsVarSegment(seg) /\ str_find(SegmentText(seg), ":") = -1

\* a pattern made of plain and <name> segments
SimplePattern(P) ==
    \A i \in 1..Len(Segments(P)) :
        IsPlainSegment(Segments(P)[i]) \/ IsNameSegment(Segments(P)[i])

\* kw, a list of items, is a mapping that gives every variable of the pattern
\* P, and nothing else, a non-empty str
CoversWithStrings(P, kw) ==
    /\ \A i, j \in 1..Len(kw) : kw[i][1] = kw[j][1] => i = j
    /\ {kw[i][1] : i \in 1..Len(kw)}
          = {SegmentText(Segments(P)[i]) :
                i \in {j \in 1..Len(Segments(P)) : IsNameSegment(Segments(P)[j])}}
    /\ \A i \in 1..Len(kw) : TypeOf(kw[i][2]) = "str" /\ kw[i][2][2] # <<>>

\* two dicts, given as their lists of items, are equal
SameMapping(kw1, kw2) ==
    {kw1[i] : i \in 1..Len(kw1)} = {kw2[i] : i \in 1..Len(kw2)}

\* C14: for a pattern P of plain and <name> segments and a mapping that
\* gives each variable of P a non-empty str, route_encode returns a path, and
\* route_match of P and that path returns True and the mapping
C14_EncodeThenMatch ==
    \A k \in 1..Len(call) :
        ( /\ call[k].op = "route_encode"
          /\ SimplePattern(call[k].args[1])
          /\ CoversWithStrings(call[k].args[1], call[k].args[2]) )
        => /\ call[k].exc = NoExc
           /\ TypeOf(call[k].val) = "str"
           /\ k = 2 => /\ call[1].exc = NoExc
                       /\ call[1].val[1] = TRUE
                       /\ SameMapping(call[1].val[2], call[2].args[2])

\* the path Q has the segment count of the pattern P and its literal segments
SameShape(P, Q) ==
    /\ Len(Segments(P)) = Len(Segments(Q))
    /\ \A i \in 1..Len(Segments(P)) :
          IsPlainSegment(Segments(P)[i]) => Segments(Q)[i] = Segments(P)[i]

\* route_match(P, Q) returned True, and route_encode of P and the variables
\* returned, if it was called next, returned Q
MatchedAndEncodedBack(k) ==
    /\ call[k].exc = NoExc
    /\ call[k].val[1] = TRUE
    /\ k = 2 => (call[1].exc = NoExc /\ call[1].val = PyStr(call[2].args[2]))

\* C15: for a pattern P of plain and <name> segments and a path Q of the
\* same shape, whatever the segments bound to variables are (the empty
\* string too), route_match returns True and route_encode of the variables
\* returns Q
C15_MatchThenEncode ==
    \A k \in 1..Len(call) :
        ( /\ call[k].op = "route_match"
          /\ SimplePattern(call[k].args[1])
          /\ SameShape(call[k].args[1], call[k].args[2]) )
        => MatchedAndEncodedBack(k)

\* the first segment of the pattern P that is <path:name>, or 0
GreedyIndex(P) ==
    LET g == {i \in 1..Len(Segments(P)) :
                 /\ IsVarSegment(Segments(P)[i])
                 /\ str_startswith(SegmentText(Segments(P)[i]), GreedyPrefix)}
    IN  IF g = {} THEN 0 ELSE CHOOSE i \in g : \A j \in g : i <= j

\* the segments of Q before index g match those of P
PrefixMatches(P, Q, g) ==
    /\ Len(Segments(Q)) >= g - 1
    /\ \A i \in 1..(g - 1) :
          \/ IsNameSegment(Segments(P)[i])
          \/ IsPlainSegment(Segments(P)[i]) /\ Segments(Q)[i] = Segments(P)[i]

\* the segments of Q from index g on joined with '/', one leading '/' removed
Remainder(Q, g) ==
    LET joined == str_join(<<"/">>, SubSeq(Segments(Q), g, Len(Segments(Q)))) IN
    IF str_startswith(joined, <<"/">>) THEN Tail(joined) ELSE joined

\* C16: for a pattern whose segment g is <path:name> and a path whose
\* segments before g match, route_match returns True and binds name to the
\* segments of the path from g on joined with '/', one leading '/' removed;
\* the segments of the pattern after g are not looked at
C16_Greedy ==
    \A k \in 1..Len(call) :
        ( /\ call[k].op = "route_match"
          /\ GreedyIndex(call[k].args[1]) # 0
          /\ PrefixMatches(call[k].args[1], call[k].args[2], GreedyIndex(call[k].args[1])) )
        => /\ call[k].exc = NoExc
           /\ call[k].val[1] = TRUE
           /\ kwargs_get(call[k].val[2],
                  VarName(Segments(call[k].args[1])[GreedyIndex(call[k].args[1])]))
                 = PyStr(Remainder(call[k].args[2], GreedyIndex(call[k].args[1])))

\* a segment with '<' and no '>' after it
Malformed(seg) == str_find(seg, "<") # -1 /\ str_find(seg, ">") <= str_find(seg, "<")

\* C17: for a pattern with a malformed variable segment, route_match returns
\* False with an empty mapping, and does not raise
C17_Malformed ==
    \A k \in 1..Len(call) :
        ( /\ call[k].op = "route_match"
          /\ \E i \in 1..Len(Segments(call[k].args[1])) :
                Malformed(Segments(call[k].args[1])[i]) )
        => /\ call[k].exc = NoExc
           /\ call[k].val[1] = FALSE
           /\ call[k].val[2] = <<>>

\* str(v) of a str or an int
Str(v) == IF TypeOf(v) = "int" THEN int_to_str(v[2]) ELSE v[2]

\* a value that is absent (None) or falsy: the empty str, 0
Falsy(v) == v \in {PyNone, PyStr(<<>>), PyInt(0)}

\* the pattern P has a variable segment without a true value in kw
MissingVariable(P, kw) ==
    \E i \in 1..Len(Segments(P)) :
        /\ IsVarSegment(Segments(P)[i])
        /\ Falsy(kwargs_get(kw, SegmentText(Segments(P)[i])))

\* the segments of the URL of the pattern P for the keyword arguments kw
EncodedSegments(P, kw) ==
    [i \in 1..Len(Segments(P)) |->
        IF IsVarSegment(Segments(P)[i])
        THEN Str(kwargs_get(kw, SegmentText(Segments(P)[i])))
        ELSE Segments(P)[i]]

ValidMethods(methods) ==
    \/ methods = PyNone
    \/ /\ TypeOf(methods) = "list"
       /\ methods[2] # <<>>
       /\ \A i \in 1..Len(methods[2]) : TypeOf(methods[2][i]) = "str"

\* C19: a call of add_route whose methods is not a non-empty list of strings
\* (an empty list, a list holding a non-string) raises ValueError and leaves
\* the route table as it was, and every route of the table has a non-empty
\* list of str methods
C19_InvalidMethods ==
    /\ [][ ( /\ call' # <<>>
             /\ call'[1].op = "add_route"
             /\ ~ValidMethods(call'[1].args[3]) )
           => (call'[1].exc = "ValueError" /\ routes' = routes) ]_vars
    /\ [](\A i \in 1..Len(routes_list(routes)) :
             /\ ValidMethods(routes_list(routes)[i][2][3])
             /\ routes_list(routes)[i][2][3] # PyNone)

\* the patterns of the routes of the table named name, in registration order
PatternsNamed(name) ==
    SelectSeq([i \in 1..Len(routes_list(routes)) |-> routes_list(routes)[i][2]],
              LAMBDA e : e[4] = name)

\* C20: route_by_name(name) returns the pattern of the first route of the
\* table whose name is name, and None when no route has that name, also
\* before any route is registered; it does not raise
C20_RouteByName ==
    (call # <<>> /\ call[1].op = "route_by_name")
    => /\ call[1].exc = NoExc
       /\ call[1].val = IF PatternsNamed(call[1].args[1]) = <<>> THEN PyNone
                        ELSE PatternsNamed(call[1].args[1])[1][1]
\* C21: after any registrations through add_route or the route decorator, no
\* two routes of the table have the same name, unless the name is None
C21_UniqueNames ==
    \A i, j \in 1..Len(routes_list(routes)) :
        ( /\ i # j
          /\ routes_list(routes)[i][2][4] # PyNone
          /\ routes_list(routes)[j][2][4] # PyNone )
        => routes_list(routes)[i][2][4] # routes_list(routes)[j][2][4]
\* the static resolver finds no file for the path of request r
NoStaticFile(r) ==
    search_file(files, req[r].environ.PATH_INFO, <<app_dir, static_dir, template_dir>>)
        = PyNone

\* C22: with routes, a request whose path contains the name of the static
\* directory does not reach the route scan: no handler is called, and when
\* the resolver finds no file the response is 404 with the body of the
\* not_found_html provider
C22_StaticBeforeRoutes ==
    \A r \in TwoRequests :
        ( /\ Rendering(r)
          /\ routes_list(routes) # <<>>
          /\ str_contains(req[r].environ.PATH_INFO, static_dir) )
        => /\ req[r].called = <<>>
           /\ NoStaticFile(r)
              => /\ req[r].triple.exc = NoExc
                 /\ StatusCode(req[r].triple) = 404
                 /\ req[r].triple.body
                       = PyList(<<PyBytes(str_encode(
                                   call_not_found_html(not_found_html)[2]))>>)

\* C22, its case: a request for /static/s.css was answered 404 although a
\* route whose methods allow the request matches that path, and no file exists
C22_Witness ==
    \E r \in TwoRequests :
        /\ req[r].pc = "rendered"
        /\ req[r].environ.PATH_INFO = PathCss
        /\ NoStaticFile(r)
        /\ HasMatch(PathCss)
        /\ py_in(PyStr(req[r].request_method),
                 routes_list(routes)[FirstMatch(PathCss)][2][3])
        /\ StatusCode(req[r].triple) = 404
\* the file that the static resolver finds for the path of request r
StaticFile(r) ==
    search_file(files, req[r].environ.PATH_INFO, <<app_dir, static_dir, template_dir>>)

\* C23: with routes, when the static resolver finds the file of a static
\* path in one of its locations, the response has status 200 and its body is
\* the content of that file
C23_StaticContent ==
    \A r \in TwoRequests :
        ( /\ Rendering(r)
          /\ routes_list(routes) # <<>>
          /\ str_contains(req[r].environ.PATH_INFO, static_dir)
          /\ StaticFile(r) # PyNone )
        => /\ req[r].triple.exc = NoExc
           /\ StatusCode(req[r].triple) = 200
           /\ req[r].triple.body
                 = PyList(<<PyBytes(str_encode(file_content(files, StaticFile(r)[2])[2]))>>)
\* C24: for every key and every string, encode(key, string) returns a value
\* and decode(key, that value) returns the string (a str is compared by the
\* code points of its characters)
C24_DecodeEncode ==
    /\ (call # <<>> /\ call[1].op = "encode") => call[1].exc = NoExc
    /\ (call # <<>> /\ call[1].op = "decode")
       => /\ call[1].exc = NoExc
          /\ call[1].val = [i \in 1..Len(call[2].args[2]) |-> py_ord(call[2].args[2][i])]
\* C25: when the handler of the route is a subclass of ClassView and the
\* methods of the route allow the request method, the method of the subclass
\* for that verb produces the response, and when the subclass does not define
\* the verb the response is 405, not an exception
C25_ClassView ==
    \A r \in TwoRequests :
        (Rendering(r) /\ req[r].called # <<>> /\ TypeOf(req[r].does) = "view")
        => /\ req[r].triple.exc = NoExc
           /\ IF req[r].request_method \in req[r].does[2]
              THEN req[r].triple.body = PyList(<<PyBytes(str_encode(<<"h", "i">>))>>)
              ELSE StatusCode(req[r].triple) = 405
\* C26: route_match is total: for every pattern and every path, also for a
\* greedy pattern and a path that has fewer segments than the pattern has
\* before its greedy segment, it returns a pair of a bool and a mapping and
\* does not raise
C26_RouteMatchTotal ==
    \A k \in 1..Len(call) :
        call[k].op = "route_match"
        => /\ call[k].exc = NoExc
           /\ call[k].val[1] \in BOOLEAN
\* C27: a call of parse_formvars on the environ of a call before (the same
\* wsgi.input and QUERY_STRING) returns the entries that the first call on
\* that environ returned: no entry of the query string is added again
C27_ParseFormvarsIdempotent ==
    (Len(call) = 2 /\ call[1].op = "parse_formvars")
    => call[1].val.val = call[2].val.val
\* the session has just been connected in memory mode
Connected == session # PyNone /\ call # <<>> /\ call[1].op = "connect"

\* C28: in memory mode, connect() under a session key that has no stored
\* session leaves session.data empty, and no entry written while another
\* session key was connected (and not under this one) is in session.data
\* after connect()
C28_SessionIsolation ==
    (Connected /\ session[2]._mode = "memory") =>
        /\ call[1].val = <<"bool", FALSE>> => Session_data(session[2]) = EmptyDict
        /\ \A f \in DOMAIN Session_data(session[2]) :
              (\E w \in past.written : /\ w[1] # call[1].args[1]
                                        /\ w[2] = f
                                        /\ w[3] = Session_data(session[2])[f])
              => <<call[1].args[1], f, Session_data(session[2])[f]>> \in past.written

\* C29: after commit() in a request that came without a session cookie, the
\* session data is stored under the session key of the cookie injected
C29_CommitKey ==
    (/\ session # PyNone /\ call # <<>> /\ call[1].op = "commit"
     /\ get_cookie(past.carried, CookieName) = PyNone) =>
        LET key == get_cookie(session[2].HTTP_COOKIE, CookieName)[2]
            store == IF session[2]._mode = "file" THEN session[2].dir ELSE session[2]._sessions
        IN  key \in DOMAIN store /\ store[key] = Session_data(session[2])

\* C30: validate_csrf(session, token) returns True only when csrf_token
\* stored that token for the session key that validate_csrf connects
C30_ValidateCsrf ==
    (session # PyNone /\ call # <<>> /\ call[1].op = "validate_csrf"
     /\ call[1].val = <<"bool", TRUE>>) =>
        <<call[1].args[1], "csrf_token", call[1].args[2]>> \in past.written
====
